---- MODULE Spec2Model ----
(***************************************************************************)
(* Model of the multi-tenancy core of awning-backend: tenant resolution    *)
(* middleware, the tenant-scoped filesystem handler with its Redis cache,   *)
(* and the user/tenant provisioning workflow of UserService.               *)
(*                                                                         *)
(* Go strings are modelled as sequences of one-character strings, so that  *)
(* length checks, character classes, prefixes and concatenation are         *)
(* computed as the code computes them.                                     *)
(***************************************************************************)
EXTENDS Integers, Sequences, FiniteSets, TLC

VARIABLES
  \* --- tenant resolution middleware (one request at a time) ---
  mwReq,        \* the request: path, X-Tenant-ID header, tenant query, claim
  mwCtx,        \* gin context keys published by middleware
  mwStatus,     \* HTTP status written so far (0: none)
  mwError,      \* the "error" of the JSON body written by middleware ("": none)
  mwStage,      \* "received" | "next" | "aborted" | "handled"
  \* --- filesystem handler ---
  fsRows,       \* namespace -> set of rows of the filesystem table
  fsCache,      \* redis: cache key -> cached FilesystemEntry
  fsRedis,      \* whether deps.Redis is configured (non-nil)
  fsLast,       \* last filesystem request and its response
  \* --- shared catalog and provisioning ---
  users,        \* set of rows of public.users
  tenants,      \* set of rows of public.tenants
  userTenants,  \* set of rows of public.user_tenants
  namespaces,   \* schema name -> "absent" | "created" | "migrated"
  clock,        \* logical time.Now(), advanced by every call
  last,         \* the last service call: its input and outcome
  prov,         \* ghost: user id -> how the row was created
  cc,           \* calls in flight: process -> its position and locals
  \* --- one generateTenantSchema call, query by query ---
  gs,           \* its position, candidate slug and counter
  \* --- JWT manager and authentication middleware ---
  jw,           \* time.Now(), the tokens issued, the last authenticated request
  \* --- password reset, chat sessions, credits, domains ---
  app           \* one field per component

mwVars   == <<mwReq, mwCtx, mwStatus, mwError, mwStage>>
fsVars   == <<fsRows, fsCache, fsRedis, fsLast>>
provVars == <<users, tenants, userTenants, namespaces, clock, last, prov, cc>>
auxVars  == <<gs, jw>>
vars     == <<mwVars, fsVars, provVars, auxVars, app>>

-----------------------------------------------------------------------------
(* Strings *)

EmptyStr == <<>>

UpperLetters == <<"A","B","C","D","E","F","G","H","I","J","K","L","M",
                  "N","O","P","Q","R","S","T","U","V","W","X","Y","Z">>
LowerLetters == <<"a","b","c","d","e","f","g","h","i","j","k","l","m",
                  "n","o","p","q","r","s","t","u","v","w","x","y","z">>
Digits       == <<"0","1","2","3","4","5","6","7","8","9">>

Range(f) == {f[i] : i \in DOMAIN f}

LowerSet == Range(LowerLetters)
UpperSet == Range(UpperLetters)
DigitSet == Range(Digits)

IsLower(r) == r \in LowerSet
IsUpper(r) == r \in UpperSet
IsDigit(r) == r \in DigitSet

\* A string of n copies of the character c.
Rep(c, n) == [i \in 1..n |-> c]

\* s[:n] of Go, for n <= len(s).
Prefix(s, n) == SubSeq(s, 1, n)

IndexIn(seq, c) == CHOOSE i \in DOMAIN seq : seq[i] = c

\* unicode.ToLower / unicode.ToUpper on one character
ToLowerChar(c) == IF IsUpper(c) THEN LowerLetters[IndexIn(UpperLetters, c)] ELSE c
ToUpperChar(c) == IF IsLower(c) THEN UpperLetters[IndexIn(LowerLetters, c)] ELSE c

\* strings.ToLower
ToLower(s) == [i \in 1..Len(s) |-> ToLowerChar(s[i])]

\* strings.Split(s, sep)[0]: s up to the first sep, all of s when it has none
SplitFirst(s, sep) ==
  IF \E i \in 1..Len(s) : s[i] = sep
  THEN SubSeq(s, 1, (CHOOSE i \in 1..Len(s) :
                       s[i] = sep /\ \A j \in 1..(i - 1) : s[j] # sep) - 1)
  ELSE s

\* fmt.Sprintf("%d", n) for n >= 0
RECURSIVE Itoa(_)
Itoa(n) == IF n < 10 THEN <<Digits[n + 1]>>
           ELSE Itoa(n \div 10) \o <<Digits[(n % 10) + 1]>>

-----------------------------------------------------------------------------
(* Tenant resolution middleware *)

\* The value c.Get returns for a key that was never set.
NotSet == [set |-> FALSE, val |-> <<>>]
CtxVal(v) == [set |-> TRUE, val |-> v]

MinTenantLen == 3
MaxTenantLen == 63

HeaderName == "X-Tenant-ID"

SkipPaths == { <<"/","a","p","i","/","v","1","/","a","u","t","h","/">>,
               <<"/","a","p","i","/","v","1","/","u","s","e","r","s","/">>,
               <<"/","h","e","a","l","t","h">> }

\* ErrInvalidTenantID.Error()
ErrInvalidTenantID == "invalid tenant ID format"

\* A character check that leaves out the underscore.
isValidTenantCharNoUnderscore(r) == IsLower(r) \/ IsUpper(r) \/ IsDigit(r)

isValidTenantChar(r) == IsLower(r) \/ IsUpper(r) \/ IsDigit(r) \/ r = "_"

\* A validation that checks the length only.
validateTenantIDLengthOnly(tenantID) ==
  /\ ~(Len(tenantID) < MinTenantLen)
  /\ ~(Len(tenantID) > MaxTenantLen)

\* TRUE iff validateTenantID returns nil.
validateTenantID(tenantID) ==
  /\ ~(Len(tenantID) < MinTenantLen)
  /\ ~(Len(tenantID) > MaxTenantLen)
  /\ \A i \in 1..Len(tenantID) : isValidTenantChar(tenantID[i])

IsSkipPath(path) ==
  \E skipPath \in SkipPaths :
     Len(path) >= Len(skipPath) /\ Prefix(path, Len(skipPath)) = skipPath

\* GetTenantSchemaFromContext: (schema, ok)
GetTenantSchemaFromContext(ctx) ==
  IF ~ctx.tenantSchema.set THEN [schema |-> EmptyStr, ok |-> FALSE]
  ELSE [schema |-> ctx.tenantSchema.val, ok |-> TRUE]

\* A resolution that consults the query parameter before the header.
ResolveTenantIDQueryFirst(req, ctx) ==
  LET fromQuery  == req.query
      fromHeader == IF fromQuery = EmptyStr THEN req.header ELSE fromQuery
      got        == GetTenantSchemaFromContext(ctx)
  IN  IF fromHeader = EmptyStr
      THEN (IF got.ok /\ got.schema # EmptyStr THEN got.schema ELSE EmptyStr)
      ELSE fromHeader

\* A resolution that skips a source whose value validateTenantID rejects.
ResolveTenantIDFirstValid(req, ctx) ==
  LET got == GetTenantSchemaFromContext(ctx) IN
  IF req.header # EmptyStr /\ validateTenantID(req.header) THEN req.header
  ELSE IF req.query # EmptyStr /\ validateTenantID(req.query) THEN req.query
  ELSE IF got.ok /\ got.schema # EmptyStr /\ validateTenantID(got.schema) THEN got.schema
  ELSE IF req.header # EmptyStr THEN req.header
  ELSE req.query

\* The tenantID variable of TenantFromHeaderMiddleware after its three lookups.
ResolveTenantID(req, ctx) ==
  LET fromHeader == req.header
      fromQuery  == IF fromHeader = EmptyStr THEN req.query ELSE fromHeader
      got        == GetTenantSchemaFromContext(ctx)
  IN  IF fromQuery = EmptyStr
      THEN (IF got.ok /\ got.schema # EmptyStr THEN got.schema ELSE EmptyStr)
      ELSE fromQuery

\* The whole middleware as a function of request and context:
\* next = TRUE iff c.Next() was called, status = the status it wrote (0: none),
\* ctx = the context it leaves.
\* A middleware for which the tenant is optional: with no source it goes on.
TenantFromHeaderOutcomeOptional(req, ctx) ==
  LET tenantID == ResolveTenantID(req, ctx) IN
  IF IsSkipPath(req.path) \/ tenantID = EmptyStr
    THEN [next |-> TRUE, status |-> 0, error |-> "", ctx |-> ctx]
  ELSE IF ~validateTenantID(tenantID)
    THEN [next |-> FALSE, status |-> 400, error |-> ErrInvalidTenantID, ctx |-> ctx]
  ELSE [next |-> TRUE, status |-> 0, error |-> "",
        ctx |-> [ctx EXCEPT !.tenantID = CtxVal(tenantID)]]

\* error = the "error" field of the JSON body ("": no body).
TenantFromHeaderOutcome(req, ctx) ==
  LET tenantID == ResolveTenantID(req, ctx) IN
  IF IsSkipPath(req.path)
    THEN [next |-> TRUE, status |-> 0, error |-> "", ctx |-> ctx]
  ELSE IF tenantID = EmptyStr
    THEN [next |-> FALSE, status |-> 400, error |-> "tenant ID is required", ctx |-> ctx]
  ELSE IF ~validateTenantID(tenantID)
    THEN [next |-> FALSE, status |-> 400, error |-> ErrInvalidTenantID, ctx |-> ctx]
  ELSE [next |-> TRUE, status |-> 0, error |-> "",
        ctx |-> [ctx EXCEPT !.tenantID = CtxVal(tenantID)]]

GetTenantIDFromContext(ctx) ==
  IF ~ctx.tenantID.set THEN [tenantID |-> EmptyStr, ok |-> FALSE]
  ELSE [tenantID |-> ctx.tenantID.val, ok |-> TRUE]

\* Request inputs.
TenantAbc  == <<"a","b","c">>
TenantAbd  == <<"a","b","d">>
TenantXyz  == <<"X","y","_","9">>
TenantBad  == <<"a","b","c",":","/","d">>
TenantTiny == <<"a","b">>

TenantInputs == {EmptyStr, TenantAbc, TenantAbd, TenantXyz, TenantBad, TenantTiny,
                 Rep("a", MaxTenantLen), Rep("a", MaxTenantLen + 1)}

PathFs      == <<"/","a","p","i","/","v","1","/","f","i","l","e","s","y","s","t","e","m","/","k">>
PathUsersMe == <<"/","a","p","i","/","v","1","/","u","s","e","r","s","/","m","e">>
PathUsers   == <<"/","a","p","i","/","v","1","/","u","s","e","r","s">>
PathHealthz == <<"/","h","e","a","l","t","h","z">>

PathInputs == {PathFs, PathUsersMe, PathUsers, PathHealthz}

\* The request of a specification that serves none through the middleware.
IdleRequest == [path |-> PathFs, header |-> EmptyStr, query |-> EmptyStr]

TenantFromHeaderMiddleware ==
  /\ mwStage = "received"
  /\ LET o == TenantFromHeaderOutcome(mwReq, mwCtx) IN
       /\ mwCtx' = o.ctx
       /\ mwStatus' = o.status
       /\ mwError' = o.error
       /\ mwStage' = IF o.next THEN "next" ELSE "aborted"
  /\ UNCHANGED <<mwReq, fsVars, provVars, auxVars, app>>

\* The downstream handler runs only when the chain was not aborted.
MwHandler ==
  /\ mwStage = "next"
  /\ mwStatus' = 200
  /\ mwStage' = "handled"
  /\ UNCHANGED <<mwReq, mwCtx, mwError, fsVars, provVars, auxVars, app>>

NextMw == TenantFromHeaderMiddleware \/ MwHandler

-----------------------------------------------------------------------------
(* Filesystem handler (GetEntry, PutEntry, DeleteEntry) behind the JWT and  *)
(* tenant middlewares, with the tenant-scoped table and the Redis cache.    *)
(* A stored blob carries, as a ghost tag, the tenant and key of the request *)
(* that wrote it; contentType, size and checksum are functions of the data. *)

\* fmt.Sprintf("fs:%s:%s", tenantID, key)
cacheKey(tenantID, key) == <<"f","s",":">> \o tenantID \o <<":">> \o key

\* Namespaces that exist in the database (provisioned tenants).
FsNamespaces == {TenantAbc, TenantAbd}

\* db.WithTenant binds the handle to tenantID's namespace; it fails, without
\* running the callback, when the namespace is absent.
WithTenantOk(rows, tenantID) == tenantID \in DOMAIN rows

\* tx.Where("tenant_schema = ? AND key = ?", tenantID, key) in namespace tenantID
FsFind(rows, tenantID, key) ==
  {r \in rows[tenantID] : r.tenant_schema = tenantID /\ r.key = key}

KeyK  == <<"/","k">>
KeyDK == <<"/","d",":","/","k">>
FsKeyInputs == {KeyK, KeyDK}
FsTenantInputs == {TenantAbc, TenantAbd, TenantXyz, TenantBad}
FsClaimInputs == {EmptyStr}
FsPayloads == {"p1"}

\* The key as path parameter or as query parameter.
FsKeyRequests ==
  { [param |-> KeyK,     query |-> EmptyStr],
    [param |-> KeyDK,    query |-> EmptyStr],
    [param |-> EmptyStr, query |-> KeyK],
    [param |-> EmptyStr, query |-> EmptyStr] }

FsNoBody == [owner |-> EmptyStr, key |-> EmptyStr, payload |-> "none"]

\* The route group runs JWTAuthMiddleware, then TenantFromHeaderMiddleware,
\* then the handler; this is the context the handler sees (or an abort).
FsChain(header, claim) ==
  TenantFromHeaderOutcome([path |-> PathFs, header |-> header, query |-> EmptyStr],
                          [tenantSchema |-> CtxVal(claim), tenantID |-> NotSet])

\* key := c.Param("key"); if key == "" { key = c.Query("key") }
GetEntryKey(param, query) == IF param = EmptyStr THEN query ELSE param

FsNoRequest == [op |-> "none", tenant |-> EmptyStr, key |-> EmptyStr,
                status |-> 0, body |-> FsNoBody]

FsAborted(op, status) ==
  /\ fsLast' = [op |-> op, tenant |-> EmptyStr, key |-> EmptyStr,
                status |-> status, body |-> FsNoBody]
  /\ UNCHANGED <<fsRows, fsCache, fsRedis>>

FsGetEntry ==
  /\ UNCHANGED <<mwVars, provVars, auxVars, app>>
  /\ \E header \in FsTenantInputs, claim \in FsClaimInputs,
     kr \in FsKeyRequests,
     redisGetOk \in BOOLEAN, redisSetOk \in BOOLEAN :
    LET chain == FsChain(header, claim)
        got   == GetTenantIDFromContext(chain.ctx)
        tenantID == got.tenantID
        key   == GetEntryKey(kr.param, kr.query)
        ck    == cacheKey(tenantID, key)
        hit   == fsRedis /\ redisGetOk /\ ck \in DOMAIN fsCache
        found == IF WithTenantOk(fsRows, tenantID)
                 THEN FsFind(fsRows, tenantID, key) ELSE {}
    IN
    IF ~chain.next THEN FsAborted("get", chain.status)
    ELSE IF ~got.ok \/ key = EmptyStr THEN FsAborted("get", 400)
    ELSE IF hit THEN
      /\ fsLast' = [op |-> "get", tenant |-> tenantID, key |-> key,
                    status |-> 200, body |-> fsCache[ck]]
      /\ UNCHANGED <<fsRows, fsCache, fsRedis>>
    ELSE IF found = {} THEN
      /\ fsLast' = [op |-> "get", tenant |-> tenantID, key |-> key,
                    status |-> 404, body |-> FsNoBody]
      /\ UNCHANGED <<fsRows, fsCache, fsRedis>>
    ELSE \E entry \in found :
      /\ fsLast' = [op |-> "get", tenant |-> tenantID, key |-> key,
                    status |-> 200, body |-> entry.data]
      /\ fsCache' = IF fsRedis /\ redisSetOk
                    THEN (ck :> entry.data) @@ fsCache ELSE fsCache
      /\ UNCHANGED <<fsRows, fsRedis>>

FsPutEntry ==
  /\ UNCHANGED <<mwVars, provVars, auxVars, app>>
  /\ \E header \in FsTenantInputs, claim \in FsClaimInputs,
     key \in FsKeyInputs \cup {EmptyStr}, payload \in FsPayloads \cup {"invalid"},
     redisSetOk \in BOOLEAN :
    LET chain == FsChain(header, claim)
        got   == GetTenantIDFromContext(chain.ctx)
        tenantID == got.tenantID
        ck    == cacheKey(tenantID, key)
        data  == [owner |-> tenantID, key |-> key, payload |-> payload]
    IN
    IF ~chain.next THEN FsAborted("put", chain.status)
    ELSE IF ~got.ok \/ key = EmptyStr \/ payload = "invalid" THEN FsAborted("put", 400)
    ELSE IF ~WithTenantOk(fsRows, tenantID) THEN
      /\ fsLast' = [op |-> "put", tenant |-> tenantID, key |-> key,
                    status |-> 500, body |-> FsNoBody]
      /\ UNCHANGED <<fsRows, fsCache, fsRedis>>
    ELSE
      /\ fsRows' = [fsRows EXCEPT ![tenantID] =
                      (@ \ FsFind(fsRows, tenantID, key))
                      \cup {[tenant_schema |-> tenantID, key |-> key, data |-> data]}]
      /\ fsCache' = IF fsRedis /\ redisSetOk
                    THEN (ck :> data) @@ fsCache ELSE fsCache
      /\ fsLast' = [op |-> "put", tenant |-> tenantID, key |-> key,
                    status |-> 200, body |-> data]
      /\ UNCHANGED fsRedis

FsDeleteEntry ==
  /\ UNCHANGED <<mwVars, provVars, auxVars, app>>
  /\ \E header \in FsTenantInputs, claim \in FsClaimInputs,
     key \in FsKeyInputs \cup {EmptyStr}, redisDelOk \in BOOLEAN :
    LET chain == FsChain(header, claim)
        got   == GetTenantIDFromContext(chain.ctx)
        tenantID == got.tenantID
        ck    == cacheKey(tenantID, key)
    IN
    IF ~chain.next THEN FsAborted("delete", chain.status)
    ELSE IF ~got.ok \/ key = EmptyStr THEN FsAborted("delete", 400)
    ELSE IF ~WithTenantOk(fsRows, tenantID) THEN
      /\ fsLast' = [op |-> "delete", tenant |-> tenantID, key |-> key,
                    status |-> 500, body |-> FsNoBody]
      /\ UNCHANGED <<fsRows, fsCache, fsRedis>>
    ELSE
      /\ fsRows' = [fsRows EXCEPT ![tenantID] = @ \ FsFind(fsRows, tenantID, key)]
      /\ fsCache' = IF fsRedis /\ redisDelOk
                    THEN [k \in DOMAIN fsCache \ {ck} |-> fsCache[k]] ELSE fsCache
      /\ fsLast' = [op |-> "delete", tenant |-> tenantID, key |-> key,
                    status |-> 200, body |-> FsNoBody]
      /\ UNCHANGED fsRedis

\* A cached entry reaches its TTL (CacheTTL) and Redis drops it.
FsCacheExpire ==
  /\ \E ck \in DOMAIN fsCache :
       fsCache' = [k \in DOMAIN fsCache \ {ck} |-> fsCache[k]]
  /\ UNCHANGED <<fsRows, fsRedis, fsLast, mwVars, provVars, auxVars, app>>

NextFs == FsGetEntry \/ FsPutEntry \/ FsDeleteEntry \/ FsCacheExpire

-----------------------------------------------------------------------------
(* Shared catalog (public.users, public.tenants, public.user_tenants), the  *)
(* physical namespaces, and UserService.                                    *)
(* Rows are never deleted by any code path, so a new row's id is the row    *)
(* count plus one.  A database step can fail for a reason outside the       *)
(* program (connection loss, cancelled context): the fault names the step.  *)

\* A nil *string / *time.Time column.
NilID == <<"nil">>
NilTime == 0

NextID(rows) == Cardinality(rows) + 1

DbNow == [users |-> users, tenants |-> tenants, userTenants |-> userTenants,
          namespaces |-> namespaces]

ProviderColumn(provider) ==
  CASE provider = "google"   -> "google_id"
    [] provider = "facebook" -> "facebook_id"
    [] provider = "tiktok"   -> "tiktok_id"

\* The unique indexes of public.users: email, google_id, facebook_id, tiktok_id
\* (a NULL external id never conflicts).
UserInsertOkNoEmailIndex(us, user) ==
  \A col \in {"google_id", "facebook_id", "tiktok_id"} :
    user[col] # NilID => \A u \in us : u[col] # user[col]

UserInsertOk(us, user) ==
  /\ \A u \in us : u.email # user.email
  /\ \A col \in {"google_id", "facebook_id", "tiktok_id"} :
       user[col] # NilID => \A u \in us : u[col] # user[col]

\* tx.Where("schema_name = ?", schema).First(&tenant)
TenantBySchema(ts, schema) == {t \in ts : t.schema_name = schema}

\* The unique indexes of public.tenants: schema_name and domain_url.
TenantInsertOk(ts, tenant) ==
  \A t \in ts : t.schema_name # tenant.schema_name /\ t.domain_url # tenant.domain_url

\* generateTenantNameFromEmail
generateTenantNameFromEmail(email) ==
  LET username == SplitFirst(email, "@") IN
  IF Len(username) > 0
  THEN <<ToUpperChar(username[1])>> \o SubSeq(username, 2, Len(username))
         \o <<"'","s"," ","W","o","r","k","s","p","a","c","e">>
  ELSE <<"M","y"," ","W","o","r","k","s","p","a","c","e">>

\* The strings.Map callback of generateTenantSchema.
SlugChar(r) == IF IsLower(r) \/ IsDigit(r) THEN r ELSE "_"

\* The slug before the collision loop.
BaseSchema(email) ==
  LET username == SplitFirst(email, "@")
      lowered  == ToLower(username)
      schema   == [i \in 1..Len(lowered) |-> SlugChar(lowered[i])]
  IN  IF Len(schema) > 0 /\ IsDigit(schema[1]) THEN <<"t","_">> \o schema ELSE schema

\* fmt.Sprintf("%s_%d", baseSchema, counter)
SuffixedSchema(baseSchema, counter) == baseSchema \o <<"_">> \o Itoa(counter)

\* The for loop of generateTenantSchema: schema is the candidate, counter the
\* next suffix.
RECURSIVE SchemaLoop(_, _, _, _)
SchemaLoop(ts, baseSchema, schema, counter) ==
  IF TenantBySchema(ts, schema) = {} THEN schema
  ELSE SchemaLoop(ts, baseSchema, SuffixedSchema(baseSchema, counter), counter + 1)

\* A slug derivation without the collision loop.
generateTenantSchemaNoLoop(ts, email) == BaseSchema(email)

\* generateTenantSchema, reading the committed tenants table
generateTenantSchema(ts, email) ==
  LET baseSchema == BaseSchema(email) IN SchemaLoop(ts, baseSchema, baseSchema, 1)

\* A role that does not depend on the count.
RoleForAlwaysMember(userTenantCount) == "member"

\* role := "member"; if userTenantCount == 0 { role = "admin" }
RoleFor(userTenantCount) == IF userTenantCount = 0 THEN "admin" ELSE "member"

\* A membership row that is not marked primary.
NewUserTenantNotPrimary(uts, userID, tenantSchema, role) ==
  [id |-> NextID(uts), user_id |-> userID, tenant_schema |-> tenantSchema,
   role |-> role, primary_tenant |-> FALSE]

\* The UserTenant row CreateUserWithTenant links the user with.
NewUserTenant(uts, userID, tenantSchema, role) ==
  [id |-> NextID(uts), user_id |-> userID, tenant_schema |-> tenantSchema,
   role |-> role, primary_tenant |-> TRUE]

\* db.CreateTenantSchema(ctx, schema) -> MigrateTenantModels: on success the
\* namespace exists and is migrated; a failed run may have created it already.
CreateTenantSchema(ns, schema, ok, partial) ==
  IF ok THEN (schema :> "migrated") @@ ns
  ELSE IF partial /\ schema \notin DOMAIN ns THEN (schema :> "created") @@ ns
  ELSE ns

NoTenant == [id |-> 0, schema_name |-> EmptyStr, domain_url |-> EmptyStr,
             name |-> EmptyStr, active |-> FALSE]

ProvFaults == {"none", "begin", "user", "lookup", "tenant", "migrate",
               "count", "link", "commit"}

(* CreateUserWithTenant, statement by statement.  st is the state of one    *)
(* call: err ("" for nil, else the step that failed), db the database at    *)
(* Begin, tx the database as the transaction sees it (its namespaces field  *)
(* is the physical state, which is not transactional), and the locals.      *)

\* A rollback that discards nothing.
RollbackKeepsRows(st) == st

\* tx.Rollback(): the catalog tables return to their state at Begin; what
\* CreateTenantSchema did through the non-transactional handle (s.deps.DB)
\* stays.
Rollback(st) == [st EXCEPT !.tx = [st.db EXCEPT !.namespaces = st.tx.namespaces]]

\* tx.Rollback(); return nil, fmt.Errorf(...)
Fail(st, err) == [Rollback(st) EXCEPT !.err = err]

\* Defaults for tenantName and tenantSchema, then s.deps.DB.DB.Begin().
TxBegin(db, params, fault) ==
  [err          |-> IF fault = "begin" THEN "begin" ELSE "",
   db           |-> db,
   tx           |-> db,
   user         |-> params.User,
   tenant       |-> NoTenant,
   tenantName   |-> IF params.TenantName = EmptyStr
                    THEN generateTenantNameFromEmail(params.User.email)
                    ELSE params.TenantName,
   tenantSchema |-> IF params.TenantSchema = EmptyStr
                    THEN generateTenantSchema(db.tenants, params.User.email)
                    ELSE params.TenantSchema,
   tenantExists |-> FALSE,
   role         |-> ""]

\* tx.Create(params.User)
TxCreateUser(st, fault) ==
  IF st.err # "" THEN st
  ELSE LET user == [st.user EXCEPT !.id = NextID(st.tx.users)] IN
       IF fault = "user" \/ ~UserInsertOk(st.tx.users, user) THEN Fail(st, "user")
       ELSE [st EXCEPT !.user = user, !.tx.users = @ \cup {user}]

\* err = tx.Where("schema_name = ?", tenantSchema).First(&tenant).Error
\* tenantExists := err == nil
TxFindTenant(st, fault) ==
  IF st.err # "" THEN st
  ELSE LET found == TenantBySchema(st.tx.tenants, st.tenantSchema) IN
       IF fault # "lookup" /\ found # {}
       THEN [st EXCEPT !.tenantExists = TRUE, !.tenant = CHOOSE t \in found : TRUE]
       ELSE st

\* if !tenantExists { tx.Create(&tenant) ... }
TxCreateTenant(st, fault) ==
  IF st.err # "" \/ st.tenantExists THEN st
  ELSE LET tenant == [id |-> NextID(st.tx.tenants), schema_name |-> st.tenantSchema,
                      domain_url |-> st.tenantSchema, name |-> st.tenantName,
                      active |-> TRUE] IN
       IF fault = "tenant" \/ ~TenantInsertOk(st.tx.tenants, tenant)
       THEN Fail(st, "tenant")
       ELSE [st EXCEPT !.tenant = tenant, !.tx.tenants = @ \cup {tenant}]

\* A migration step that goes on after CreateTenantSchema has failed.
TxMigrateIgnoringError(st, fault, partial) ==
  IF st.err # "" \/ st.tenantExists THEN st
  ELSE [st EXCEPT !.tx.namespaces =
                    CreateTenantSchema(@, st.tenantSchema, fault # "migrate", partial)]

\* if !tenantExists { ... s.deps.DB.CreateTenantSchema(ctx, tenantSchema) }
TxMigrate(st, fault, partial) ==
  IF st.err # "" \/ st.tenantExists THEN st
  ELSE IF fault = "migrate"
  THEN Fail([st EXCEPT !.tx.namespaces =
                         CreateTenantSchema(@, st.tenantSchema, FALSE, partial)],
            "migrate")
  ELSE [st EXCEPT !.tx.namespaces = CreateTenantSchema(@, st.tenantSchema, TRUE, FALSE)]

\* The count of the tenant's memberships and the role.
TxCountUsers(st, fault) ==
  IF st.err # "" THEN st
  ELSE IF fault = "count" THEN Fail(st, "count")
  ELSE [st EXCEPT !.role = RoleFor(Cardinality({ut \in st.tx.userTenants :
                                                  ut.tenant_schema = st.tenantSchema}))]

\* tx.Create(&userTenant)
TxCreateUserTenant(st, fault) ==
  IF st.err # "" THEN st
  ELSE IF fault = "link" THEN Fail(st, "link")
  ELSE [st EXCEPT !.tx.userTenants =
                     @ \cup {NewUserTenant(@, st.user.id, st.tenantSchema, st.role)}]

\* The count, the role, and the insert of the membership.
TxLinkUser(st, fault) == TxCreateUserTenant(TxCountUsers(st, fault), fault)

\* tx.Commit()
TxCommit(st, fault) ==
  IF st.err # "" THEN st
  ELSE IF fault = "commit" THEN Fail(st, "commit")
  ELSE st

\* CreateUserWithTenant on database db: the state of the call when it
\* returns; .tx is the database it leaves.
CreateUserWithTenant(db, params, fault, partial) ==
  TxCommit(
    TxLinkUser(
      TxMigrate(
        TxCreateTenant(
          TxFindTenant(
            TxCreateUser(TxBegin(db, params, fault), fault),
            fault),
          fault),
        fault, partial),
      fault),
    fault)

Providers == {"google", "facebook", "tiktok"}

OAuthFaults == {"idquery", "touch", "emailquery", "linkupdate"}

\* The result of FindOrCreateUserWithOAuth; path tells which branch
\* returned: "byid", "byemail", "created" or "" (an error).
OAuthResult(err, path, dbAfter, userID, tenantSchema, role) ==
  [err |-> err, path |-> path, db |-> dbAfter, userID |-> userID,
   tenantSchema |-> tenantSchema, role |-> role]

\* The last branch: result, err := s.CreateUserWithTenant(ctx, ...)
OAuthCreated(r) ==
  IF r.err # "" THEN OAuthResult(r.err, "", r.tx, 0, r.tenantSchema, "")
  ELSE OAuthResult("", "created", r.tx, r.user.id, r.tenantSchema, r.role)

\* s.deps.DB.Model(&existing).Updates(...) on the one row u
UpdateUser(db, u, v) == [db EXCEPT !.users = (@ \ {u}) \cup {v}]

\* The branch that finds the user by the provider's id.
OAuthByID(db, u, now, fault) ==
  OAuthResult("", "byid",
              IF fault = "touch" THEN db
              ELSE UpdateUser(db, u, [u EXCEPT !.last_login_at = now]),
              u.id, EmptyStr, "")

\* A link step that updates last_login_at only.
OAuthByEmailTouchOnly(db, u, col, oauthID, now, fault) ==
  IF fault = "linkupdate" THEN OAuthResult("linkupdate", "", db, 0, EmptyStr, "")
  ELSE OAuthResult("", "byemail",
                   UpdateUser(db, u, [u EXCEPT !.last_login_at = now]),
                   u.id, EmptyStr, "")

\* The branch that finds the user by email and links the provider's id.
OAuthByEmail(db, u, col, oauthID, now, fault) ==
  IF fault = "linkupdate" THEN OAuthResult("linkupdate", "", db, 0, EmptyStr, "")
  ELSE OAuthResult("", "byemail",
                   UpdateUser(db, u, [u EXCEPT !.last_login_at = now, ![col] = oauthID]),
                   u.id, EmptyStr, "")

\* A lookup that tries the email before the provider's id.
FindOrCreateUserWithOAuthEmailFirst(db, user, oauthProvider, oauthID, now, fault, partial) ==
  IF oauthProvider \notin Providers
    THEN OAuthResult("unsupported", "", db, 0, EmptyStr, "")
  ELSE IF user.email # EmptyStr /\ fault = "emailquery"
    THEN OAuthResult("emailquery", "", db, 0, EmptyStr, "")
  ELSE IF user.email # EmptyStr /\ \E u \in db.users : u.email = user.email
    THEN OAuthByEmail(db, CHOOSE u \in db.users : u.email = user.email,
                      ProviderColumn(oauthProvider), oauthID, now, fault)
  ELSE IF fault = "idquery"
    THEN OAuthResult("idquery", "", db, 0, EmptyStr, "")
  ELSE IF \E u \in db.users : u[ProviderColumn(oauthProvider)] = oauthID
    THEN OAuthByID(db, CHOOSE u \in db.users : u[ProviderColumn(oauthProvider)] = oauthID,
                   now, fault)
  ELSE OAuthCreated(CreateUserWithTenant(db,
                      [User |-> user, TenantName |-> EmptyStr, TenantSchema |-> EmptyStr],
                      IF fault \in ProvFaults THEN fault ELSE "none", partial))

\* UserService.FindOrCreateUserWithOAuth on database db at time now.
FindOrCreateUserWithOAuth(db, user, oauthProvider, oauthID, now, fault, partial) ==
  IF oauthProvider \notin Providers
    THEN OAuthResult("unsupported", "", db, 0, EmptyStr, "")
  ELSE IF fault = "idquery"
    THEN OAuthResult("idquery", "", db, 0, EmptyStr, "")
  ELSE IF \E u \in db.users : u[ProviderColumn(oauthProvider)] = oauthID
    THEN OAuthByID(db, CHOOSE u \in db.users : u[ProviderColumn(oauthProvider)] = oauthID,
                   now, fault)
  ELSE IF user.email # EmptyStr /\ fault = "emailquery"
    THEN OAuthResult("emailquery", "", db, 0, EmptyStr, "")
  ELSE IF user.email # EmptyStr /\ \E u \in db.users : u.email = user.email
    THEN OAuthByEmail(db, CHOOSE u \in db.users : u.email = user.email,
                      ProviderColumn(oauthProvider), oauthID, now, fault)
  ELSE OAuthCreated(CreateUserWithTenant(db,
                      [User |-> user, TenantName |-> EmptyStr, TenantSchema |-> EmptyStr],
                      IF fault \in ProvFaults THEN fault ELSE "none", partial))

NewUser(email, passwordHash, now) ==
  [id |-> 0, email |-> email, password_hash |-> passwordHash, active |-> TRUE,
   google_id |-> NilID, facebook_id |-> NilID, tiktok_id |-> NilID,
   last_login_at |-> now,
   password_reset_token |-> NilID, password_reset_expires |-> NilTime]

\* fmt.Sprintf("tiktok_%s@placeholder.local", info.OpenID)
TikTokEmail(openID) ==
  <<"t","i","k","t","o","k","_">> \o openID
    \o <<"@","p","l","a","c","e","h","o","l","d","e","r",".","l","o","c","a","l">>

\* The models.User that findOrCreateGoogleUser / findOrCreateFacebookUser /
\* findOrCreateTikTokUser build from the provider's user info.
OAuthCandidate(provider, oauthID, email, now) ==
  [NewUser(IF provider = "tiktok" THEN TikTokEmail(oauthID) ELSE email, "", now)
     EXCEPT ![ProviderColumn(provider)] = oauthID]

\* Handler.Register: the existence check, then a plain insert of the user row.
\* status is the HTTP status; fault "query" fails the existence query, "create"
\* the insert, "token" the signing of the token.
Register(db, email, fault) ==
  LET exists == fault # "query" /\ \E u \in db.users : u.email = email
      user   == [NewUser(email, "hash", NilTime) EXCEPT !.id = NextID(db.users)]
      ok     == fault # "create" /\ UserInsertOk(db.users, user)
  IN  IF exists THEN [status |-> 409, db |-> db, userID |-> 0]
      ELSE IF ~ok THEN [status |-> 500, db |-> db, userID |-> 0]
      ELSE IF fault = "token"
        THEN [status |-> 500, db |-> [db EXCEPT !.users = @ \cup {user}], userID |-> user.id]
      ELSE [status |-> 201, db |-> [db EXCEPT !.users = @ \cup {user}], userID |-> user.id]

\* oauth.go's findOrCreateGoogleUser / findOrCreateFacebookUser /
\* findOrCreateTikTokUser: lookup by external id, then (not for TikTok) by
\* email, then a plain insert of the user row.  Update errors are ignored.
LegacyFindOrCreate(db, provider, oauthID, email, now, fault) ==
  LET col     == ProviderColumn(provider)
      cand    == [OAuthCandidate(provider, oauthID, email, now)
                    EXCEPT !.id = NextID(db.users)]
      byID    == IF fault = "idquery" THEN {}
                 ELSE {u \in db.users : u[col] = oauthID}
      byEmail == IF provider = "tiktok" \/ fault = "emailquery" THEN {}
                 ELSE {u \in db.users : u.email = email}
      Swap(u, v) == [db EXCEPT !.users = (@ \ {u}) \cup {v}]
  IN  IF byID # {}
        THEN LET u == CHOOSE x \in byID : TRUE IN
             [err |-> "", db |-> IF fault = "touch" THEN db
                                 ELSE Swap(u, [u EXCEPT !.last_login_at = now]),
              userID |-> u.id]
      ELSE IF byEmail # {}
        THEN LET u == CHOOSE x \in byEmail : TRUE IN
             [err |-> "", db |-> IF fault = "linkupdate" THEN db
                                 ELSE Swap(u, [u EXCEPT !.last_login_at = now,
                                                        ![col] = oauthID]),
              userID |-> u.id]
      ELSE IF fault = "create" \/ ~UserInsertOk(db.users, cand)
        THEN [err |-> "create", db |-> db, userID |-> 0]
      ELSE [err |-> "", db |-> [db EXCEPT !.users = @ \cup {cand}], userID |-> cand.id]

\* Inputs.
MaxCalls  == 3
MaxLogins == 2

EmailOwnerA == <<"o","w","n","e","r","@","a","c","m","e",".","t","e","s","t">>
EmailOwnerB == <<"o","w","n","e","r","@","b">>
EmailNineZ  == <<"9",".","Z","@","a">>
EmailInputs == {EmailOwnerA, EmailOwnerB, EmailNineZ}

SchemaOwner == <<"o","w","n","e","r">>
ExplicitSchemas == {EmptyStr, SchemaOwner}

IdX1 == <<"x","1">>
IdX2 == <<"x","2">>

\* What the identity providers report: provider, external id, email (TikTok
\* reports no email).
OAuthInputs ==
  { [provider |-> "google",   oauthID |-> IdX1, email |-> EmailOwnerA],
    [provider |-> "google",   oauthID |-> IdX2, email |-> EmailOwnerA],
    [provider |-> "google",   oauthID |-> IdX1, email |-> EmailOwnerB],
    [provider |-> "facebook", oauthID |-> IdX1, email |-> EmailOwnerA],
    [provider |-> "tiktok",   oauthID |-> IdX1, email |-> EmptyStr],
    [provider |-> "tiktok",   oauthID |-> IdX2, email |-> EmptyStr] }

NoCall == [op |-> "none", email |-> EmptyStr, explicit |-> EmptyStr,
           provider |-> "", oauthID |-> NilID, fault |-> "none", err |-> "",
           status |-> 0, path |-> "", userID |-> 0, tenantSchema |-> EmptyStr,
           tenantExists |-> FALSE, role |-> "", at |-> 0,
           primary |-> [schema |-> EmptyStr, err |-> ""],
           password |-> "", token |-> NilID]

\* A lookup of the primary tenant that does not filter by user.
GetPrimaryTenantSchemaAnyUser(uts, userID) ==
  IF uts = {} THEN [schema |-> EmptyStr, err |-> "no tenant found for user"]
  ELSE [schema |-> (CHOOSE ut \in uts : \A o \in uts : ut.id <= o.id).tenant_schema,
        err |-> ""]

\* GetPrimaryTenantSchema: the first membership of the user with
\* primary_tenant = true; without one, the user's first membership by
\* created_at; without any, an error.
GetPrimaryTenantSchema(uts, userID) ==
  LET primary == {ut \in uts : ut.user_id = userID /\ ut.primary_tenant}
      all     == {ut \in uts : ut.user_id = userID}
  IN  IF primary # {}
        THEN [schema |-> (CHOOSE ut \in primary : \A o \in primary : ut.id <= o.id).tenant_schema,
              err |-> ""]
      ELSE IF all # {}
        THEN [schema |-> (CHOOSE ut \in all : \A o \in all : ut.id <= o.id).tenant_schema,
              err |-> ""]
      ELSE [schema |-> EmptyStr, err |-> "no tenant found for user"]

NoProv == [via |-> "none", auto |-> FALSE, collided |-> FALSE]

\* The processes that serve requests concurrently, none of them in a call.
Procs == {1, 2}

NoCalls == [p \in Procs |-> [kind |-> "none", pc |-> "idle", email |-> EmptyStr,
                              explicit |-> EmptyStr, status |-> 0, st |-> <<>>]]

SetDb(db) ==
  /\ users' = db.users
  /\ tenants' = db.tenants
  /\ userTenants' = db.userTenants
  /\ namespaces' = db.namespaces

\* A caller provisions a user through CreateUserWithTenant, with or without an
\* explicit TenantSchema.
ProvisionUser ==
  /\ clock < MaxCalls
  /\ \E email \in EmailInputs, explicit \in ExplicitSchemas, fault \in ProvFaults,
        partial \in BOOLEAN :
       /\ partial => fault = "migrate"
       /\ LET now == clock + 1
              r   == CreateUserWithTenant(DbNow,
                        [User |-> NewUser(email, "hash", NilTime),
                         TenantName |-> EmptyStr, TenantSchema |-> explicit],
                        fault, partial)
          IN /\ SetDb(r.tx)
             /\ clock' = now
             /\ last' = [NoCall EXCEPT !.op = "create", !.email = email,
                           !.explicit = explicit, !.fault = fault, !.err = r.err,
                           !.userID = IF r.err = "" THEN r.user.id ELSE 0,
                           !.tenantSchema = r.tenantSchema,
                           !.tenantExists = r.tenantExists,
                           !.role = IF r.err = "" THEN r.role ELSE "", !.at = now]
             /\ prov' = IF r.err = ""
                        THEN (r.user.id :>
                                [via |-> "create", auto |-> explicit = EmptyStr,
                                 collided |-> TenantBySchema(tenants, BaseSchema(email)) # {}])
                             @@ prov
                        ELSE prov
  /\ UNCHANGED <<mwVars, fsVars, auxVars, app, cc>>

\* The faults an OAuth callback is run under.
OAuthFaultInputs == {"none", "migrate", "commit"} \cup OAuthFaults

\* An OAuth callback: findOrCreate<Provider>User -> FindOrCreateUserWithOAuth,
\* then GetPrimaryTenantSchema for the token,
\* while fewer than limit calls were made, under one of the faults.
OAuthLoginWithin(limit, faults) ==
  /\ clock < limit
  /\ \E in \in OAuthInputs, fault \in faults, partial \in BOOLEAN :
       /\ partial => fault = "migrate"
       /\ LET now  == clock + 1
              cand == OAuthCandidate(in.provider, in.oauthID, in.email, now)
              r    == FindOrCreateUserWithOAuth(DbNow, cand, in.provider, in.oauthID,
                                                now, fault, partial)
          IN /\ SetDb(r.db)
             /\ clock' = now
             /\ last' = [NoCall EXCEPT !.op = "oauth", !.email = cand.email,
                           !.provider = in.provider, !.oauthID = in.oauthID,
                           !.fault = fault, !.err = r.err, !.path = r.path,
                           !.userID = r.userID, !.tenantSchema = r.tenantSchema,
                           !.role = r.role, !.at = now,
                           !.primary = IF r.err = ""
                                       THEN GetPrimaryTenantSchema(r.db.userTenants, r.userID)
                                       ELSE @]
             /\ prov' = IF r.path = "created"
                        THEN (r.userID :>
                                [via |-> "oauth", auto |-> TRUE,
                                 collided |-> TenantBySchema(tenants, BaseSchema(cand.email)) # {}])
                             @@ prov
                        ELSE prov
  /\ UNCHANGED <<mwVars, fsVars, auxVars, app, cc>>

OAuthLogin == OAuthLoginWithin(MaxLogins, OAuthFaultInputs)

\* The faults of Handler.Register: the existence query, the insert, the
\* signing of the token.
RegisterFaults == {"query", "create", "token"}

\* POST /api/v1/auth/register, while fewer than limit calls were made
RegisterWithin(limit, faults) ==
  /\ clock < limit
  /\ \E email \in EmailInputs \ {EmailNineZ}, fault \in faults :
       LET now == clock + 1
           r   == Register(DbNow, email, fault)
       IN /\ SetDb(r.db)
          /\ clock' = now
          /\ last' = [NoCall EXCEPT !.op = "register", !.email = email,
                        !.fault = fault, !.status = r.status,
                        !.userID = r.userID, !.at = now]
          /\ prov' = IF r.userID # 0
                     THEN (r.userID :> [NoProv EXCEPT !.via = "register"]) @@ prov
                     ELSE prov
  /\ UNCHANGED <<mwVars, fsVars, auxVars, app, cc>>

RegisterUser == RegisterWithin(MaxLogins, {"none"} \cup RegisterFaults)

\* The lookups of FindOrCreateUserWithOAuth over a longer history: logins
\* under the faults of its own queries and updates, and registrations.
MaxLookups == 3

OAuthLookup == OAuthLoginWithin(MaxLookups, {"none"} \cup OAuthFaults)

RegisterForLookup == RegisterWithin(MaxLookups, {"none"})

\* An OAuth callback served by oauth.go's handlers.
LegacyOAuthLogin ==
  /\ clock < MaxLogins
  /\ \E in \in OAuthInputs, fault \in {"none", "create"} :
       LET now == clock + 1
           r   == LegacyFindOrCreate(DbNow, in.provider, in.oauthID, in.email, now, fault)
       IN /\ SetDb(r.db)
          /\ clock' = now
          /\ last' = [NoCall EXCEPT !.op = "legacy", !.email = in.email,
                        !.provider = in.provider, !.oauthID = in.oauthID,
                        !.fault = fault, !.err = r.err, !.userID = r.userID,
                        !.at = now]
          /\ prov' = IF r.err = "" /\ r.userID \notin DOMAIN prov
                     THEN (r.userID :> [NoProv EXCEPT !.via = "legacy"]) @@ prov
                     ELSE prov
  /\ UNCHANGED <<mwVars, fsVars, auxVars, app, cc>>

NextProv == ProvisionUser

NextOAuth == OAuthLogin \/ RegisterUser \/ LegacyOAuthLogin

NextLookup == OAuthLookup \/ RegisterForLookup

-----------------------------------------------------------------------------
(* Concurrent calls.  Each process runs Handler.Register or                 *)
(* CreateUserWithTenant statement by statement against one database.  The   *)
(* database runs the transaction of CreateUserWithTenant at READ COMMITTED: *)
(* a statement sees the committed rows and the transaction's own writes; an *)
(* insert that conflicts on a unique index with an uncommitted row of       *)
(* another transaction waits until that transaction ends.  Register's       *)
(* statements commit one by one.  Ids come from a sequence.                 *)

MaxConcCalls == 2

\* An address whose local part has two characters.
EmailAl == <<"a","l","@","x">>

ConcEmails == {EmailOwnerA, EmailOwnerB, EmailAl}

InFlight(p) == cc[p].kind = "create" /\ cc[p].pc \notin {"idle", "done"}

\* The uncommitted rows of process p's transaction in one table.
Writes(p, table) ==
  IF InFlight(p) THEN cc[p].st.tx[table] \ cc[p].st.db[table] ELSE {}

\* The call state of p before its next statement: the committed database
\* and p's own writes.
\* A transaction that keeps the snapshot it began with and never sees rows
\* committed since.
RefreshKeepsSnapshot(p) == cc[p].st

Refresh(p) ==
  [cc[p].st EXCEPT !.db = DbNow,
                   !.tx = [users       |-> users \cup Writes(p, "users"),
                           tenants     |-> tenants \cup Writes(p, "tenants"),
                           userTenants |-> userTenants \cup Writes(p, "userTenants"),
                           namespaces  |-> namespaces]]

\* The next value of a table's id sequence.
SeqID(table) ==
  LET ids == {r.id : r \in DbNow[table] \cup UNION {Writes(q, table) : q \in Procs}}
  IN  IF ids = {} THEN 1 ELSE 1 + CHOOSE m \in ids : \A n \in ids : n <= m

\* The rows of a table after an insert, with the inserted row's id taken
\* from the sequence.
Inserted(before, after, id) == before \cup {[r EXCEPT !.id = id] : r \in after \ before}

\* Another transaction holds an uncommitted row with this value in a unique
\* column.
WaitsOn(p, table, column, value) ==
  \E q \in Procs \ {p} : \E r \in Writes(q, table) : r[column] = value

\* p goes on with st, to statement next unless the call has failed.
Goes(p, st, next) ==
  cc' = [cc EXCEPT ![p].st = st,
                   ![p].pc = IF st.err # "" THEN "done" ELSE next,
                   ![p].status = IF st.err # "" THEN 500 ELSE 0]

\* A request arrives: registration, or provisioning up to Begin.
ConcStart(p) ==
  /\ cc[p].pc \in {"idle", "done"}
  /\ clock < MaxConcCalls
  /\ clock' = clock + 1
  /\ \E email \in ConcEmails :
       \/ cc' = [cc EXCEPT ![p] = [kind |-> "register", pc |-> "check", email |-> email,
                                   explicit |-> EmptyStr, status |-> 0, st |-> <<>>]]
       \/ \E explicit \in ExplicitSchemas :
            cc' = [cc EXCEPT ![p] =
                     [kind |-> "create", pc |-> "user", email |-> email,
                      explicit |-> explicit, status |-> 0,
                      st |-> TxBegin(DbNow, [User |-> NewUser(email, "hash", NilTime),
                                             TenantName |-> EmptyStr,
                                             TenantSchema |-> explicit], "none")]]
  /\ UNCHANGED <<mwVars, fsVars, auxVars, app, users, tenants, userTenants, namespaces, last, prov>>

\* Register: the existence query.
ConcRegisterCheck(p) ==
  /\ cc[p].kind = "register" /\ cc[p].pc = "check"
  /\ cc' = IF \E u \in users : u.email = cc[p].email
           THEN [cc EXCEPT ![p].pc = "done", ![p].status = 409]
           ELSE [cc EXCEPT ![p].pc = "create"]
  /\ UNCHANGED <<mwVars, fsVars, auxVars, app, users, tenants, userTenants, namespaces, clock, last, prov>>

\* Register: the insert (the existence query has answered not-found) and the
\* response.
ConcRegisterCreate(p) ==
  /\ cc[p].kind = "register" /\ cc[p].pc = "create"
  /\ ~WaitsOn(p, "users", "email", cc[p].email)
  /\ LET r == Register(DbNow, cc[p].email, "query") IN
       /\ users' = Inserted(users, r.db.users, SeqID("users"))
       /\ cc' = [cc EXCEPT ![p].pc = "done", ![p].status = r.status]
  /\ UNCHANGED <<mwVars, fsVars, auxVars, app, tenants, userTenants, namespaces, clock, last, prov>>

\* CreateUserWithTenant: tx.Create(&params.User)
ConcCreateUser(p) ==
  /\ cc[p].kind = "create" /\ cc[p].pc = "user"
  /\ ~WaitsOn(p, "users", "email", cc[p].email)
  /\ LET st == TxCreateUser(Refresh(p), "none") IN
       Goes(p, IF st.err # "" THEN st
               ELSE [st EXCEPT !.user.id = SeqID("users"),
                               !.tx.users = Inserted(Refresh(p).tx.users, @, SeqID("users"))],
            "lookup")
  /\ UNCHANGED <<mwVars, fsVars, auxVars, app, users, tenants, userTenants, namespaces, clock, last, prov>>

\* CreateUserWithTenant: the tenant lookup
ConcFindTenant(p) ==
  /\ cc[p].kind = "create" /\ cc[p].pc = "lookup"
  /\ LET st == TxFindTenant(Refresh(p), "none") IN
       Goes(p, st, IF st.tenantExists THEN "count" ELSE "tenant")
  /\ UNCHANGED <<mwVars, fsVars, auxVars, app, users, tenants, userTenants, namespaces, clock, last, prov>>

\* CreateUserWithTenant: tx.Create(&tenant)
ConcCreateTenant(p) ==
  /\ cc[p].kind = "create" /\ cc[p].pc = "tenant"
  /\ ~WaitsOn(p, "tenants", "schema_name", cc[p].st.tenantSchema)
  /\ LET st == TxCreateTenant(Refresh(p), "none") IN
       Goes(p, IF st.err # "" THEN st
               ELSE [st EXCEPT !.tenant.id = SeqID("tenants"),
                               !.tx.tenants = Inserted(Refresh(p).tx.tenants, @, SeqID("tenants"))],
            "migrate")
  /\ UNCHANGED <<mwVars, fsVars, auxVars, app, users, tenants, userTenants, namespaces, clock, last, prov>>

\* CreateUserWithTenant: s.deps.DB.CreateTenantSchema, outside the transaction
ConcMigrate(p) ==
  /\ cc[p].kind = "create" /\ cc[p].pc = "migrate"
  /\ LET st == TxMigrate(Refresh(p), "none", FALSE) IN
       /\ Goes(p, st, "count")
       /\ namespaces' = st.tx.namespaces
  /\ UNCHANGED <<mwVars, fsVars, auxVars, app, users, tenants, userTenants, clock, last, prov>>

\* CreateUserWithTenant: the membership count and the role
ConcCountUsers(p) ==
  /\ cc[p].kind = "create" /\ cc[p].pc = "count"
  /\ Goes(p, TxCountUsers(Refresh(p), "none"), "link")
  /\ UNCHANGED <<mwVars, fsVars, auxVars, app, users, tenants, userTenants, namespaces, clock, last, prov>>

\* CreateUserWithTenant: tx.Create(&userTenant)
ConcCreateUserTenant(p) ==
  /\ cc[p].kind = "create" /\ cc[p].pc = "link"
  /\ LET st == TxCreateUserTenant(Refresh(p), "none") IN
       Goes(p, [st EXCEPT !.tx.userTenants =
                            Inserted(Refresh(p).tx.userTenants, @, SeqID("userTenants"))],
            "commit")
  /\ UNCHANGED <<mwVars, fsVars, auxVars, app, users, tenants, userTenants, namespaces, clock, last, prov>>

\* CreateUserWithTenant: tx.Commit()
ConcCommit(p) ==
  /\ cc[p].kind = "create" /\ cc[p].pc = "commit"
  /\ users' = users \cup Writes(p, "users")
  /\ tenants' = tenants \cup Writes(p, "tenants")
  /\ userTenants' = userTenants \cup Writes(p, "userTenants")
  /\ cc' = [cc EXCEPT ![p].pc = "done", ![p].status = 200]
  /\ UNCHANGED <<mwVars, fsVars, auxVars, app, namespaces, clock, last, prov>>

NextConc ==
  \E p \in Procs :
    \/ ConcStart(p)
    \/ ConcRegisterCheck(p)
    \/ ConcRegisterCreate(p)
    \/ ConcCreateUser(p)
    \/ ConcFindTenant(p)
    \/ ConcCreateTenant(p)
    \/ ConcMigrate(p)
    \/ ConcCountUsers(p)
    \/ ConcCreateUserTenant(p)
    \/ ConcCommit(p)

-----------------------------------------------------------------------------
(* generateTenantSchema's collision loop, one existence query per step.  A  *)
(* query answers with the row, with gorm.ErrRecordNotFound, or with another *)
(* error; while the database is unreachable every query answers with an     *)
(* error.                                                                   *)

\* Suffixes above MaxSuffix are counted as MaxSuffix; of the iterations made
\* with such a suffix the model keeps the parity (spin).
MaxSuffix == 3

NoSlug == [pc |-> "idle", email |-> EmptyStr, baseSchema |-> EmptyStr,
           schema |-> EmptyStr, counter |-> 0, spin |-> 0, down |-> FALSE,
           err |-> ""]

TenantRow(id, schema) ==
  [id |-> id, schema_name |-> schema, domain_url |-> schema, name |-> schema,
   active |-> TRUE]

\* Contents of public.tenants that earlier signups for "owner" leave behind.
SlugTenants ==
  {{}, {TenantRow(1, SchemaOwner)},
   {TenantRow(1, SchemaOwner), TenantRow(2, SuffixedSchema(SchemaOwner, 1))}}

\* err of s.deps.DB.DB.Where("schema_name = ?", schema).First(&tenant)
SlugQueryErrors(ts, schema, down) ==
  IF down THEN {"error"}
  ELSE {IF TenantBySchema(ts, schema) = {} THEN "notfound" ELSE "found", "error"}

\* generateTenantSchema up to the loop
GenStart ==
  /\ gs.pc \in {"idle", "returned"}
  /\ \E email \in ConcEmails, down \in BOOLEAN :
       gs' = [pc |-> "loop", email |-> email, baseSchema |-> BaseSchema(email),
              schema |-> BaseSchema(email), counter |-> 1, spin |-> 0, down |-> down,
              err |-> ""]
  /\ UNCHANGED <<mwVars, fsVars, provVars, jw, app>>

\* One iteration of the for loop: the query, then break or the next candidate.
GenQuery ==
  /\ gs.pc = "loop"
  /\ \E err \in SlugQueryErrors(tenants, gs.schema, gs.down) :
       gs' = IF err = "notfound"
             THEN [gs EXCEPT !.pc = "returned", !.err = err]
             ELSE [gs EXCEPT !.schema = SuffixedSchema(gs.baseSchema, gs.counter),
                             !.counter = IF @ < MaxSuffix THEN @ + 1 ELSE @,
                             !.spin = IF gs.counter < MaxSuffix THEN @ ELSE 1 - @,
                             !.err = err]
  /\ UNCHANGED <<mwVars, fsVars, provVars, jw, app>>

NextSlug == GenStart \/ GenQuery

-----------------------------------------------------------------------------
(* JWT manager and JWTAuthMiddleware.  Time is counted in ticks of half a   *)
(* second.  A token string is "t<i>" for the i-th token the manager signed, *)
(* "f<i>" for the same claims signed with another key; any other string is  *)
(* not a JWT.                                                               *)

\* jwt.TimePrecision (one second), in ticks
TimePrecision == 2

\* JWTManager.expiry, a whole number of seconds (of hours in the code), in
\* ticks
Expiry == 4

MaxNow == 8
MaxTokens == 1

\* time.Time.Truncate(jwt.TimePrecision)
Truncate(t) == t - (t % TimePrecision)

ErrInvalidToken == "invalid token"
ErrExpiredToken == "token has expired"

Bearer == <<"B","e","a","r","e","r">>
Basic  == <<"B","a","s","i","c">>
PathAccount == <<"/","a","p","i","/","v","1","/","a","c","c","o","u","n","t">>

\* strings.SplitN(s, sep, 2)
SplitN2(s, sep) ==
  IF sep \in Range(s)
  THEN <<SplitFirst(s, sep), SubSeq(s, Len(SplitFirst(s, sep)) + 2, Len(s))>>
  ELSE <<s>>

\* JWTManager.issuer
JwtIssuer == <<"a","w","n","i","n","g">>

\* Claims whose tenantSchema is always empty.
GenerateTokenNoTenant(userID, email, tenantSchema, now) ==
  [iss |-> JwtIssuer, sub |-> Itoa(userID), userId |-> userID, email |-> email,
   tenantSchema |-> EmptyStr,
   iat |-> Truncate(now), exp |-> Truncate(now + Expiry), nbf |-> Truncate(now)]

\* GenerateToken's claims; NewNumericDate truncates to jwt.TimePrecision.
GenerateToken(userID, email, tenantSchema, now) ==
  [iss |-> JwtIssuer, sub |-> Itoa(userID), userId |-> userID, email |-> email,
   tenantSchema |-> tenantSchema,
   iat |-> Truncate(now), exp |-> Truncate(now + Expiry), nbf |-> Truncate(now)]

\* The zero value of Claims.
ZeroClaims == [iss |-> EmptyStr, sub |-> EmptyStr, userId |-> 0, email |-> EmptyStr,
               tenantSchema |-> EmptyStr, iat |-> 0, exp |-> 0, nbf |-> 0]

\* json.Marshal of the claims: the key of tenantSchema is left out when the
\* value is empty (`json:"tenantSchema,omitempty"`).
EncodeClaims(claims) ==
  [k \in IF claims.tenantSchema = EmptyStr THEN DOMAIN claims \ {"tenantSchema"}
         ELSE DOMAIN claims |-> claims[k]]

\* json.Unmarshal into &Claims{}: a missing key leaves the zero value.
DecodeClaims(payload) ==
  [k \in DOMAIN ZeroClaims |-> IF k \in DOMAIN payload THEN payload[k] ELSE ZeroClaims[k]]

TokenString(i) == <<"t">> \o Itoa(i)
ForgedString(i) == <<"f">> \o Itoa(i)
NotAToken == <<"z","z">>

NoClaims == ZeroClaims

\* A validation that does not look at the expiry.
ValidateTokenNoExpiry(tokenString, now, issued) ==
  IF \E i \in 1..Len(issued) : TokenString(i) = tokenString
  THEN [claims |-> DecodeClaims(issued[CHOOSE i \in 1..Len(issued) :
                                        TokenString(i) = tokenString].payload),
        err |-> ""]
  ELSE [claims |-> NoClaims, err |-> ErrInvalidToken]

\* ValidateToken: jwt.ParseWithClaims checks the format, then the signature,
\* then exp (now < exp) and nbf (now >= nbf); an error that is
\* jwt.ErrTokenExpired gives ErrExpiredToken, any other ErrInvalidToken.
ValidateToken(tokenString, now, issued) ==
  IF \E i \in 1..Len(issued) : TokenString(i) = tokenString
  THEN LET claims == DecodeClaims(issued[CHOOSE i \in 1..Len(issued) :
                                           TokenString(i) = tokenString].payload)
       IN  IF ~(now < claims.exp) THEN [claims |-> NoClaims, err |-> ErrExpiredToken]
           ELSE IF now < claims.nbf THEN [claims |-> NoClaims, err |-> ErrInvalidToken]
           ELSE [claims |-> claims, err |-> ""]
  ELSE [claims |-> NoClaims, err |-> ErrInvalidToken]

\* The gin context before any middleware has run.
NoAuthCtx == [claims |-> NotSet, userId |-> NotSet, email |-> NotSet,
              tenantSchema |-> NotSet, tenantID |-> NotSet]

\* OptionalJWTAuthMiddleware: goes on without claims when the header is
\* missing, malformed or carries a token that does not validate.
OptionalJWTAuthOutcome(authHeader, now, issued, ctx) ==
  LET parts == SplitN2(authHeader, " ") IN
  IF authHeader = EmptyStr \/ Len(parts) # 2
    THEN [next |-> TRUE, status |-> 0, error |-> "", ctx |-> ctx]
  ELSE IF ToLower(parts[1]) # ToLower(Bearer)
         \/ ValidateToken(parts[2], now, issued).err # ""
    THEN [next |-> TRUE, status |-> 0, error |-> "", ctx |-> ctx]
  ELSE [next |-> TRUE, status |-> 0, error |-> "",
        ctx |-> [ctx EXCEPT !.claims = CtxVal(ValidateToken(parts[2], now, issued).claims),
                            !.userId = CtxVal(ValidateToken(parts[2], now, issued).claims.userId),
                            !.email = CtxVal(ValidateToken(parts[2], now, issued).claims.email),
                            !.tenantSchema =
                               CtxVal(ValidateToken(parts[2], now, issued).claims.tenantSchema)]]

\* What JWTAuthMiddleware does with a request.
JWTAuthOutcome(authHeader, now, issued, ctx) ==
  LET parts == SplitN2(authHeader, " ") IN
  IF authHeader = EmptyStr
    THEN [next |-> FALSE, status |-> 401, error |-> "missing authorization header",
          ctx |-> ctx]
  ELSE IF Len(parts) # 2
    THEN [next |-> FALSE, status |-> 401, error |-> "invalid authorization header format",
          ctx |-> ctx]
  ELSE IF ToLower(parts[1]) # ToLower(Bearer)
    THEN [next |-> FALSE, status |-> 401, error |-> "invalid authorization header format",
          ctx |-> ctx]
  ELSE IF ValidateToken(parts[2], now, issued).err # ""
    THEN [next |-> FALSE, status |-> 401,
          error |-> ValidateToken(parts[2], now, issued).err, ctx |-> ctx]
  ELSE [next |-> TRUE, status |-> 0, error |-> "",
        ctx |-> [ctx EXCEPT !.claims = CtxVal(ValidateToken(parts[2], now, issued).claims),
                            !.userId = CtxVal(ValidateToken(parts[2], now, issued).claims.userId),
                            !.email = CtxVal(ValidateToken(parts[2], now, issued).claims.email),
                            !.tenantSchema =
                               CtxVal(ValidateToken(parts[2], now, issued).claims.tenantSchema)]]

NoAuthRequest == [header |-> EmptyStr, at |-> 0, status |-> 0, error |-> "",
                  ctx |-> NoAuthCtx, tenantMw |-> FALSE, handler |-> FALSE]

NoJwt == [now |-> 0, issued |-> <<>>, last |-> NoAuthRequest]

\* Authorization headers a client can send.
AuthHeaderInputs(issued) ==
  {EmptyStr, Bearer} \cup
  {scheme \o <<" ">> \o token :
     scheme \in {Bearer, ToLower(Bearer), Basic},
     token \in {EmptyStr, NotAToken}
                 \cup {TokenString(i) : i \in 1..Len(issued)}
                 \cup {ForgedString(i) : i \in 1..Len(issued)}}

\* Time passes.
JwtTick ==
  /\ jw.now < MaxNow
  /\ jw' = [jw EXCEPT !.now = @ + 1]
  /\ UNCHANGED <<mwVars, fsVars, provVars, gs, app>>

\* The users tokens are issued for: one with a tenant, one (registered with
\* a password) without.
JwtIssueInputs ==
  {[userID |-> 1, email |-> EmailOwnerA, tenantSchema |-> TenantAbc],
   [userID |-> 2, email |-> EmailOwnerB, tenantSchema |-> EmptyStr]}

\* Login, registration or OAuth success: GenerateToken.  payload is the signed
\* token's content; for is the call's input and at its time before truncation.
JwtIssue ==
  /\ Len(jw.issued) < MaxTokens
  /\ \E in \in JwtIssueInputs :
       jw' = [jw EXCEPT !.issued =
                Append(@, [payload |-> EncodeClaims(GenerateToken(in.userID, in.email,
                                                                  in.tenantSchema, jw.now)),
                           for |-> in, at |-> jw.now])]
  /\ UNCHANGED <<mwVars, fsVars, provVars, gs, app>>

\* The request record after TenantFromHeaderMiddleware has answered t and, if
\* it went on, the handler has run.
AccountChain(authHeader, now, t) ==
  [header |-> authHeader, at |-> now, status |-> IF t.next THEN 200 ELSE t.status,
   error |-> t.error, ctx |-> t.ctx, tenantMw |-> TRUE, handler |-> t.next]

\* A request to /api/v1/account: JWTAuthMiddleware, TenantFromHeaderMiddleware,
\* then the handler, each only if the one before called c.Next().
AccountRequest ==
  /\ \E authHeader \in AuthHeaderInputs(jw.issued) :
       LET o == JWTAuthOutcome(authHeader, jw.now, jw.issued, NoAuthCtx) IN
         jw' = [jw EXCEPT !.last =
                  IF ~o.next
                  THEN [header |-> authHeader, at |-> jw.now, status |-> o.status,
                        error |-> o.error, ctx |-> o.ctx, tenantMw |-> FALSE,
                        handler |-> FALSE]
                  ELSE AccountChain(authHeader, jw.now,
                                    TenantFromHeaderOutcome(
                                      [path |-> PathAccount, header |-> EmptyStr,
                                       query |-> EmptyStr], o.ctx))]
  /\ UNCHANGED <<mwVars, fsVars, provVars, gs, app>>

NextJwt == JwtTick \/ JwtIssue \/ AccountRequest

-----------------------------------------------------------------------------
(* Tenant-scoped routes: profile, account, domains and filesystem all run   *)
(* JWTAuthMiddleware, then TenantFromHeaderMiddleware, then the handler.    *)

PathProfile == <<"/","a","p","i","/","v","1","/","p","r","o","f","i","l","e">>
PathDomains == <<"/","a","p","i","/","v","1","/","d","o","m","a","i","n","s">>

TenantPaths == {PathProfile, PathAccount, PathDomains, PathFs}

NoTenantRequest == [path |-> EmptyStr, header |-> EmptyStr, query |-> EmptyStr,
                    status |-> 0, ctx |-> NoAuthCtx, handler |-> FALSE]

\* The catalog the tenant-scoped routes run against: user 1 is the admin of
\* tenant abc, user 2 has no tenant yet, user 3 is the admin of tenant abd.
TenantUsers ==
  {[NewUser(EmailOwnerA, "hash", NilTime) EXCEPT !.id = 1],
   [NewUser(EmailOwnerB, "hash", NilTime) EXCEPT !.id = 2],
   [NewUser(EmailAl, "hash", NilTime) EXCEPT !.id = 3]}

TenantMemberships ==
  {[NewUserTenant({}, 1, TenantAbc, "admin") EXCEPT !.id = 1],
   [NewUserTenant({}, 3, TenantAbd, "admin") EXCEPT !.id = 2]}

\* The middleware chain of a tenant-scoped route and whether the handler ran.
TenantChain(path, authHeader, header, query, now, issued) ==
  LET o == JWTAuthOutcome(authHeader, now, issued, NoAuthCtx)
      t == TenantFromHeaderOutcome([path |-> path, header |-> header, query |-> query],
                                   o.ctx)
  IN  IF ~o.next
      THEN [path |-> path, header |-> header, query |-> query, status |-> o.status,
            ctx |-> o.ctx, handler |-> FALSE]
      ELSE [path |-> path, header |-> header, query |-> query,
            status |-> IF t.next THEN 200 ELSE t.status, ctx |-> t.ctx,
            handler |-> t.next]

TenantRequest ==
  /\ \E path \in TenantPaths,
        authHeader \in {EmptyStr} \cup {Bearer \o <<" ">> \o TokenString(i) :
                                          i \in 1..Len(jw.issued)},
        header \in {EmptyStr, TenantAbc, TenantAbd}, query \in {EmptyStr, TenantAbd} :
       app' = [app EXCEPT !.req =
                 TenantChain(path, authHeader, header, query, jw.now, jw.issued)]
  /\ UNCHANGED <<mwVars, fsVars, provVars, auxVars>>

NextTenant == JwtTick \/ JwtIssue \/ TenantRequest

-----------------------------------------------------------------------------
(* Chat sessions (chat.Handler over RedisClient).  Redis holds one key      *)
(* "chat:<id>" per chat.  The routes run JWTAuthMiddleware only; `tenant`   *)
(* is the tenantSchema claim of the caller's validated token.  The field    *)
(* `by` of a stored chat is history kept for the properties: the tenant of  *)
(* the request that created the key.  The code stores no such thing.        *)

MaxChatOps == 3

ChatC1 == <<"c","1">>
ChatTenants == {TenantAbc, TenantAbd}

\* fmt.Sprintf("chat:%s", chatID)
ChatKey(chatID) == <<"c","h","a","t",":">> \o chatID

\* uuid.New().String(): the n-th identifier generated.
NewUUID(n) == <<"u">> \o Itoa(n)

NoChatRequest == [op |-> "", tenant |-> EmptyStr, chatID |-> EmptyStr, status |-> 0,
                  by |-> EmptyStr, messages |-> <<>>]

\* RedisClient.GetChat
RedisGetChat(store, chatID) ==
  IF ChatKey(chatID) \in DOMAIN store
  THEN [err |-> "", chat |-> store[ChatKey(chatID)]]
  ELSE [err |-> "chat not found", chat |-> [id |-> chatID, messages |-> <<>>, by |-> EmptyStr]]

\* RedisClient.SaveChat
RedisSaveChat(store, chat) ==
  [k \in DOMAIN store \cup {ChatKey(chat.id)} |->
     IF k = ChatKey(chat.id) THEN chat ELSE store[k]]

\* RedisClient.DeleteChat
RedisDeleteChat(store, chatID) ==
  [k \in DOMAIN store \ {ChatKey(chatID)} |-> store[k]]

\* Handler.CreateChatStream: load or create the chat, add the user's message
\* and the assistant's, save.
CreateChatStream(reqChatID) ==
  /\ app.ops < MaxChatOps
  /\ \E tenant \in ChatTenants :
       LET chatID == IF reqChatID = EmptyStr THEN NewUUID(app.uuids + 1) ELSE reqChatID
           got    == RedisGetChat(app.redis, chatID)
           chat   == IF reqChatID = EmptyStr \/ got.err # ""
                     THEN [id |-> chatID, messages |-> <<>>, by |-> tenant]
                     ELSE got.chat
           saved  == [chat EXCEPT !.messages =
                        @ \o <<[role |-> "user", from |-> tenant],
                               [role |-> "assistant", from |-> tenant]>>]
       IN  app' = [app EXCEPT
                     !.ops = @ + 1,
                     !.uuids = IF reqChatID = EmptyStr THEN @ + 1 ELSE @,
                     !.redis = RedisSaveChat(@, saved),
                     !.chat = [op |-> "stream", tenant |-> tenant, chatID |-> chatID,
                               status |-> 200,
                               by |-> IF reqChatID # EmptyStr /\ got.err = ""
                                      THEN got.chat.by ELSE EmptyStr,
                               messages |-> saved.messages]]
  /\ UNCHANGED <<mwVars, fsVars, provVars, auxVars>>

\* Handler.GetChat
GetChat(chatID) ==
  /\ app.ops < MaxChatOps
  /\ \E tenant \in ChatTenants :
       LET got == RedisGetChat(app.redis, chatID) IN
         app' = [app EXCEPT
                   !.ops = @ + 1,
                   !.chat = IF got.err # ""
                            THEN [NoChatRequest EXCEPT !.op = "get", !.tenant = tenant,
                                                       !.chatID = chatID, !.status = 404]
                            ELSE [op |-> "get", tenant |-> tenant, chatID |-> chatID,
                                  status |-> 200, by |-> got.chat.by,
                                  messages |-> got.chat.messages]]
  /\ UNCHANGED <<mwVars, fsVars, provVars, auxVars>>

\* Handler.DeleteChat
DeleteChat(chatID) ==
  /\ app.ops < MaxChatOps
  /\ \E tenant \in ChatTenants :
       app' = [app EXCEPT
                 !.ops = @ + 1,
                 !.redis = RedisDeleteChat(@, chatID),
                 !.chat = [NoChatRequest EXCEPT
                             !.op = "delete", !.tenant = tenant, !.chatID = chatID,
                             !.status = 200,
                             !.by = RedisGetChat(app.redis, chatID).chat.by]]
  /\ UNCHANGED <<mwVars, fsVars, provVars, auxVars>>

\* Chat IDs a caller may supply: none, a chosen one, or one the server
\* generated earlier.
ChatIDInputs == {ChatC1} \cup {NewUUID(n) : n \in 1..MaxChatOps}

NextChat ==
  \/ \E reqChatID \in {EmptyStr} \cup ChatIDInputs : CreateChatStream(reqChatID)
  \/ \E chatID \in ChatIDInputs : GetChat(chatID)
  \/ \E chatID \in ChatIDInputs : DeleteChat(chatID)

-----------------------------------------------------------------------------
(* The filesystem handlers statement by statement, for requests of tenant   *)
(* abc on key /k that run concurrently: the cache read, the database        *)
(* statement and the cache write of one request are separate steps.         *)

MaxFsOps == 3

FsConcPayloads == {"p1", "p2"}

FsConcKey == cacheKey(TenantAbc, KeyK)

FsIdle(p) == cc[p].pc \in {"idle", "done"}

FsDone(p, status, data) ==
  cc' = [cc EXCEPT ![p].pc = "done", ![p].status = status, ![p].st = [data |-> data]]

\* A request arrives and passes the middlewares.
FsConcStart(p) ==
  /\ FsIdle(p)
  /\ app.fsOps < MaxFsOps
  /\ app' = [app EXCEPT !.fsOps = @ + 1]
  /\ \E kind \in {"get", "put", "delete"} :
       \E payload \in IF kind = "put" THEN FsConcPayloads ELSE {"none"} :
         cc' = [cc EXCEPT ![p] =
                  [kind |-> kind, pc |-> IF kind = "get" /\ fsRedis THEN "cache" ELSE "db",
                   email |-> EmptyStr, explicit |-> EmptyStr, status |-> 0,
                   st |-> [data |-> [owner |-> TenantAbc, key |-> KeyK,
                                     payload |-> payload]]]]
  /\ UNCHANGED <<mwVars, fsVars, auxVars, users, tenants, userTenants, namespaces,
                 clock, last, prov>>

\* GetEntry: h.getFromCache
ConcGetFromCache(p) ==
  /\ cc[p].kind = "get" /\ cc[p].pc = "cache"
  /\ IF FsConcKey \in DOMAIN fsCache
     THEN FsDone(p, 200, fsCache[FsConcKey])
     ELSE cc' = [cc EXCEPT ![p].pc = "db"]
  /\ UNCHANGED <<mwVars, fsVars, auxVars, app, users, tenants, userTenants, namespaces,
                 clock, last, prov>>

\* GetEntry: the query inside WithTenant
ConcFsQuery(p) ==
  /\ cc[p].kind = "get" /\ cc[p].pc = "db"
  /\ LET found == FsFind(fsRows, TenantAbc, KeyK) IN
       IF found = {} THEN FsDone(p, 404, FsNoBody)
       ELSE \E entry \in found :
              IF fsRedis
              THEN cc' = [cc EXCEPT ![p].pc = "fill", ![p].st = [data |-> entry.data]]
              ELSE FsDone(p, 200, entry.data)
  /\ UNCHANGED <<mwVars, fsVars, auxVars, app, users, tenants, userTenants, namespaces,
                 clock, last, prov>>

\* PutEntry: find and tx.Save inside WithTenant
ConcFsSave(p) ==
  /\ cc[p].kind = "put" /\ cc[p].pc = "db"
  /\ fsRows' = [fsRows EXCEPT ![TenantAbc] =
                  (@ \ FsFind(fsRows, TenantAbc, KeyK))
                  \cup {[tenant_schema |-> TenantAbc, key |-> KeyK,
                         data |-> cc[p].st.data]}]
  /\ IF fsRedis THEN cc' = [cc EXCEPT ![p].pc = "fill"]
     ELSE FsDone(p, 200, cc[p].st.data)
  /\ UNCHANGED <<mwVars, fsCache, fsRedis, fsLast, auxVars, app, users, tenants,
                 userTenants, namespaces, clock, last, prov>>

\* DeleteEntry: the delete inside WithTenant
ConcFsDelete(p) ==
  /\ cc[p].kind = "delete" /\ cc[p].pc = "db"
  /\ fsRows' = [fsRows EXCEPT ![TenantAbc] = @ \ FsFind(fsRows, TenantAbc, KeyK)]
  /\ IF fsRedis THEN cc' = [cc EXCEPT ![p].pc = "inval"]
     ELSE FsDone(p, 200, FsNoBody)
  /\ UNCHANGED <<mwVars, fsCache, fsRedis, fsLast, auxVars, app, users, tenants,
                 userTenants, namespaces, clock, last, prov>>

\* GetEntry, PutEntry: h.cacheEntry and the 200 response
ConcCacheEntry(p) ==
  /\ cc[p].kind \in {"get", "put"} /\ cc[p].pc = "fill"
  /\ fsCache' = (FsConcKey :> cc[p].st.data) @@ fsCache
  /\ FsDone(p, 200, cc[p].st.data)
  /\ UNCHANGED <<mwVars, fsRows, fsRedis, fsLast, auxVars, app, users, tenants,
                 userTenants, namespaces, clock, last, prov>>

\* DeleteEntry: h.invalidateCache and the 200 response
ConcInvalidateCache(p) ==
  /\ cc[p].kind = "delete" /\ cc[p].pc = "inval"
  /\ fsCache' = [k \in DOMAIN fsCache \ {FsConcKey} |-> fsCache[k]]
  /\ FsDone(p, 200, FsNoBody)
  /\ UNCHANGED <<mwVars, fsRows, fsRedis, fsLast, auxVars, app, users, tenants,
                 userTenants, namespaces, clock, last, prov>>

NextFsConc ==
  \/ \E p \in Procs :
       \/ FsConcStart(p)
       \/ ConcGetFromCache(p)
       \/ ConcFsQuery(p)
       \/ ConcFsSave(p)
       \/ ConcFsDelete(p)
       \/ ConcCacheEntry(p)
       \/ ConcInvalidateCache(p)
  \/ FsCacheExpire

-----------------------------------------------------------------------------
(* Credits of one tenant's account (account.Handler.AddCredits, UseCredits). *)
(* Inside WithTenant each handler reads the account row, changes its copy    *)
(* and writes the copy back with tx.Save; the read and the write are two     *)
(* statements and nothing locks the row between them.                        *)

MaxCreditOps == 3
MaxAmount == 2

CreditTypes == {"basic", "premium"}

\* tx.Where("tenant_schema = ?", tenantID).First(&account): the row with the
\* lowest id, or none.
FirstAccount(accounts) ==
  IF accounts = {} THEN [id |-> 0, basic |-> 0, premium |-> 0]
  ELSE CHOOSE a \in accounts : \A b \in accounts : a.id <= b.id

\* tx.Save(&account): an insert for a zero id, else an update of every column
\* of the row with that id.
SaveAccount(accounts, account) ==
  IF account.id = 0
  THEN accounts \cup {[account EXCEPT !.id = Cardinality(accounts) + 1]}
  ELSE {IF a.id = account.id THEN account ELSE a : a \in accounts}

\* account.BasicCredits += amount / account.PremiumCredits += amount
Credit(account, type, amount) ==
  IF type = "basic" THEN [account EXCEPT !.basic = @ + amount]
  ELSE [account EXCEPT !.premium = @ + amount]

Balance(account, type) == IF type = "basic" THEN account.basic ELSE account.premium

CreditStart(p) ==
  /\ cc[p].pc \in {"idle", "done"}
  /\ app.creditOps < MaxCreditOps
  /\ app' = [app EXCEPT !.creditOps = @ + 1]
  /\ \E kind \in {"add", "use"}, type \in CreditTypes, amount \in 1..MaxAmount :
       cc' = [cc EXCEPT ![p] =
                [kind |-> kind, pc |-> "read", email |-> EmptyStr, explicit |-> EmptyStr,
                 status |-> 0,
                 st |-> [type |-> type, amount |-> amount,
                         account |-> FirstAccount({})]]]
  /\ UNCHANGED <<mwVars, fsVars, auxVars, users, tenants, userTenants, namespaces,
                 clock, last, prov>>

\* AddCredits: the query and the addition on the copy.
AddCreditsRead(p) ==
  /\ cc[p].kind = "add" /\ cc[p].pc = "read"
  /\ cc' = [cc EXCEPT ![p].pc = "save",
                      ![p].st.account = Credit(FirstAccount(app.accounts),
                                               cc[p].st.type, cc[p].st.amount)]
  /\ UNCHANGED <<mwVars, fsVars, auxVars, app, users, tenants, userTenants, namespaces,
                 clock, last, prov>>

\* UseCredits: the query, the balance check and the deduction on the copy.
UseCreditsRead(p) ==
  /\ cc[p].kind = "use" /\ cc[p].pc = "read"
  /\ cc' = IF app.accounts = {}
           THEN [cc EXCEPT ![p].pc = "done", ![p].status = 500]
           ELSE IF Balance(FirstAccount(app.accounts), cc[p].st.type) < cc[p].st.amount
           THEN [cc EXCEPT ![p].pc = "done", ![p].status = 400]
           ELSE [cc EXCEPT ![p].pc = "save",
                           ![p].st.account = Credit(FirstAccount(app.accounts),
                                                    cc[p].st.type, 0 - cc[p].st.amount)]
  /\ UNCHANGED <<mwVars, fsVars, auxVars, app, users, tenants, userTenants, namespaces,
                 clock, last, prov>>

\* AddCredits, UseCredits: tx.Save(&account) and the 200 response.  The
\* ledger adds up the amounts of the requests that answered 200.
CreditSave(p) ==
  /\ cc[p].kind \in {"add", "use"} /\ cc[p].pc = "save"
  /\ app' = [app EXCEPT
               !.accounts = SaveAccount(@, cc[p].st.account),
               !.ledger[cc[p].st.type] =
                  IF cc[p].kind = "add" THEN @ + cc[p].st.amount ELSE @ - cc[p].st.amount]
  /\ cc' = [cc EXCEPT ![p].pc = "done", ![p].status = 200]
  /\ UNCHANGED <<mwVars, fsVars, auxVars, users, tenants, userTenants, namespaces,
                 clock, last, prov>>

NextCredit ==
  \E p \in Procs :
    \/ CreditStart(p)
    \/ AddCreditsRead(p)
    \/ UseCreditsRead(p)
    \/ CreditSave(p)

-----------------------------------------------------------------------------
(* Domains of one tenant (domains.Handler.AddDomain, DeleteDomain,          *)
(* SetPrimaryDomain) on the tenant's tenant_domains table.  TenantDomain    *)
(* embeds gorm.Model: Delete sets deleted_at, queries and updates skip the  *)
(* deleted rows, and the unique index on domain covers them.                *)

DomainInputs == {<<"d","1">>, <<"d","2">>, <<"d","3">>}

NoDomainRequest == [op |-> "", domain |-> EmptyStr, status |-> 0]

\* The rows a gorm query sees: deleted_at IS NULL
LiveDomains(rows) == {r \in rows : ~r.deleted}

\* tx.Create(&domain)
AddDomain(domain) ==
  /\ IF \E r \in app.domains : r.domain = domain
     THEN app' = [app EXCEPT !.domain = [op |-> "add", domain |-> domain, status |-> 500]]
     ELSE app' = [app EXCEPT
                    !.domains = @ \cup {[id |-> Cardinality(@) + 1, domain |-> domain,
                                         primary |-> FALSE, deleted |-> FALSE]},
                    !.domain = [op |-> "add", domain |-> domain, status |-> 201]]
  /\ UNCHANGED <<mwVars, fsVars, provVars, auxVars>>

\* tx.Where("tenant_schema = ? AND domain = ?", ...).Delete(&models.TenantDomain{})
DeleteDomain(domain) ==
  /\ app' = [app EXCEPT
               !.domains = {IF ~r.deleted /\ r.domain = domain
                            THEN [r EXCEPT !.deleted = TRUE] ELSE r : r \in @},
               !.domain = [op |-> "delete", domain |-> domain, status |-> 200]]
  /\ UNCHANGED <<mwVars, fsVars, provVars, auxVars>>

\* SetPrimaryDomain's two updates: every live row to primary = false, then
\* the live rows named domain to primary = true; no error, so 200.
SetPrimaryRows(rows, domain) ==
  [status |-> 200,
   rows |-> {IF r.deleted THEN r ELSE [r EXCEPT !.primary = (r.domain = domain)] :
               r \in rows}]

SetPrimaryDomain(domain) ==
  /\ app' = [app EXCEPT
               !.domains = SetPrimaryRows(@, domain).rows,
               !.domain = [op |-> "primary", domain |-> domain,
                           status |-> SetPrimaryRows(app.domains, domain).status]]
  /\ UNCHANGED <<mwVars, fsVars, provVars, auxVars>>

NextDomain ==
  \E domain \in DomainInputs :
    \/ AddDomain(domain)
    \/ DeleteDomain(domain)
    \/ SetPrimaryDomain(domain)

-----------------------------------------------------------------------------
(* Password login and password reset (Handler.Login, RequestPasswordReset,  *)
(* ConfirmPasswordReset).  ConfirmPasswordReset runs as two statements, the *)
(* query by token and the update, so that two requests can interleave.      *)

\* 1 * time.Hour, in ticks of the clock
ResetWindow == 2

MaxAuthClock == 4
MaxResets == 2

Passwords == {"pw1", "pw2"}

\* bcrypt.GenerateFromPassword; CompareHashAndPassword(hash, p) succeeds iff
\* hash was generated from p.
BcryptOf(password) ==
  IF password = "pw1" THEN "hash1" ELSE IF password = "pw2" THEN "hash2" ELSE "hash"

\* hex.EncodeToString of 32 random bytes: the n-th token generated.
ResetToken(n) == <<"k">> \o Itoa(n)

\* public.users for the login handlers: empty, or one account with password
\* pw1, active or deactivated.
AuthUserTables ==
  {{}} \cup {{[NewUser(EmailOwnerA, BcryptOf("pw1"), NilTime)
                 EXCEPT !.id = 1, !.active = a]} : a \in BOOLEAN}

\* Handler.Login
Login(us, email, password, now) ==
  LET found == {u \in us : u.email = email} IN
  IF found = {}
    THEN [status |-> 401, error |-> "invalid credentials", users |-> us]
  ELSE IF \A u \in found : ~u.active
    THEN [status |-> 401, error |-> "account is disabled", users |-> us]
  ELSE IF \A u \in found : u.password_hash # BcryptOf(password)
    THEN [status |-> 401, error |-> "invalid credentials", users |-> us]
  ELSE [status |-> 200, error |-> "",
        users |-> {IF u \in found THEN [u EXCEPT !.last_login_at = now] ELSE u : u \in us}]

\* Handler.RequestPasswordReset: the same answer whether or not the account
\* exists.
RequestPasswordReset(us, email, token, now) ==
  {IF u.email = email
   THEN [u EXCEPT !.password_reset_token = token,
                  !.password_reset_expires = now + ResetWindow]
   ELSE u : u \in us}

\* ConfirmPasswordReset up to the expiry check: status 0 means go on.
ConfirmFind(us, token, now) ==
  LET found == {u \in us : u.password_reset_token = token} IN
  IF found = {} THEN [status |-> 400, userID |-> 0]
  ELSE IF \A u \in found : u.password_reset_expires = NilTime
                            \/ u.password_reset_expires < now
    THEN [status |-> 400, userID |-> 0]
  ELSE [status |-> 0, userID |-> (CHOOSE u \in found : TRUE).id]

\* ConfirmPasswordReset's Updates on the row found.
ConfirmUpdate(us, userID, newPassword) ==
  {IF u.id = userID
   THEN [u EXCEPT !.password_hash = BcryptOf(newPassword),
                  !.password_reset_token = NilID,
                  !.password_reset_expires = NilTime]
   ELSE u : u \in us}

AuthTick ==
  /\ clock < MaxAuthClock
  /\ clock' = clock + 1
  /\ UNCHANGED <<mwVars, fsVars, auxVars, app, users, tenants, userTenants, namespaces,
                 last, prov, cc>>

AuthLogin ==
  /\ \E email \in {EmailOwnerA, EmailOwnerB}, password \in Passwords :
       LET r == Login(users, email, password, clock) IN
         /\ users' = r.users
         /\ last' = [NoCall EXCEPT !.op = "login", !.email = email, !.password = password,
                                   !.status = r.status, !.err = r.error]
  /\ UNCHANGED <<mwVars, fsVars, auxVars, app, tenants, userTenants, namespaces, clock,
                 prov, cc>>

AuthRequestReset ==
  /\ app.resets < MaxResets
  /\ \E email \in {EmailOwnerA, EmailOwnerB} :
       /\ users' = RequestPasswordReset(users, email, ResetToken(app.resets + 1), clock)
       /\ last' = [NoCall EXCEPT !.op = "reset", !.email = email, !.status = 200,
                                 !.token = ResetToken(app.resets + 1)]
  /\ app' = [app EXCEPT !.resets = @ + 1]
  /\ UNCHANGED <<mwVars, fsVars, auxVars, tenants, userTenants, namespaces, clock, prov, cc>>

\* ConfirmPasswordReset: the query by token and the expiry check.
AuthConfirmFind(p) ==
  /\ cc[p].pc = "idle"
  /\ \E n \in 1..MaxResets, newPassword \in Passwords :
       LET r == ConfirmFind(users, ResetToken(n), clock) IN
         cc' = [cc EXCEPT ![p] =
                  [kind |-> "confirm", pc |-> IF r.status = 0 THEN "update" ELSE "done",
                   email |-> EmptyStr, explicit |-> EmptyStr, status |-> r.status,
                   st |-> [token |-> ResetToken(n), newPassword |-> newPassword,
                           userID |-> r.userID]]]
  /\ UNCHANGED <<mwVars, fsVars, auxVars, app, users, tenants, userTenants, namespaces,
                 clock, last, prov>>

\* ConfirmPasswordReset: the update and the 200 response.
AuthConfirmUpdate(p) ==
  /\ cc[p].kind = "confirm" /\ cc[p].pc = "update"
  /\ users' = ConfirmUpdate(users, cc[p].st.userID, cc[p].st.newPassword)
  /\ cc' = [cc EXCEPT ![p].pc = "done", ![p].status = 200]
  /\ UNCHANGED <<mwVars, fsVars, auxVars, app, tenants, userTenants, namespaces, clock,
                 last, prov>>

NextAuth ==
  \/ AuthTick
  \/ AuthLogin
  \/ AuthRequestReset
  \/ \E p \in Procs : AuthConfirmFind(p) \/ AuthConfirmUpdate(p)

-----------------------------------------------------------------------------
(* Specifications: each runs one component and leaves the others idle. *)

\* The state of the components that have no table in the shared catalog:
\* reset tokens generated, the last tenant-scoped request, the filesystem
\* requests started, the domain rows of one tenant and the last domain
\* request, the account rows of one tenant with the ledger of its
\* successful credit requests, and the chat store.
NoApp == [resets |-> 0, req |-> NoTenantRequest,
          fsOps |-> 0,
          domains |-> {}, domain |-> NoDomainRequest,
          creditOps |-> 0, accounts |-> {}, ledger |-> [t \in CreditTypes |-> 0],
          ops |-> 0, uuids |-> 0, redis |-> <<>>, chat |-> NoChatRequest]

\* A request has arrived at the middleware; the JWT middleware, where it runs
\* before this one, has put the validated token's tenantSchema claim into the
\* context (empty when the token carries none).
InitMw ==
  /\ \E p \in PathInputs, h \in TenantInputs, q \in TenantInputs,
        cl \in {NotSet} \cup {CtxVal(t) : t \in TenantInputs} :
       /\ mwReq = [path |-> p, header |-> h, query |-> q]
       /\ mwCtx = [tenantSchema |-> cl, tenantID |-> NotSet]
  /\ mwStatus = 0
  /\ mwError = ""
  /\ mwStage = "received"
  /\ fsRows = [ns \in FsNamespaces |-> {}]
  /\ fsCache = <<>>
  /\ fsRedis = FALSE
  /\ fsLast = FsNoRequest
  /\ users = {}
  /\ tenants = {}
  /\ userTenants = {}
  /\ namespaces = <<>>
  /\ clock = 0
  /\ last = NoCall
  /\ prov = <<>>
  /\ cc = NoCalls
  /\ gs = NoSlug
  /\ jw = NoJwt
  /\ app = NoApp

\* The provisioned namespaces hold no rows, the cache is empty, and Redis is
\* configured or not.
InitFs ==
  /\ mwReq = IdleRequest
  /\ mwCtx = [tenantSchema |-> NotSet, tenantID |-> NotSet]
  /\ mwStatus = 0
  /\ mwError = ""
  /\ mwStage = "handled"
  /\ fsRows = [ns \in FsNamespaces |-> {}]
  /\ fsCache = <<>>
  /\ fsRedis \in BOOLEAN
  /\ fsLast = FsNoRequest
  /\ users = {}
  /\ tenants = {}
  /\ userTenants = {}
  /\ namespaces = <<>>
  /\ clock = 0
  /\ last = NoCall
  /\ prov = <<>>
  /\ cc = NoCalls
  /\ gs = NoSlug
  /\ jw = NoJwt
  /\ app = NoApp

\* An empty database.
InitProv ==
  /\ mwReq = IdleRequest
  /\ mwCtx = [tenantSchema |-> NotSet, tenantID |-> NotSet]
  /\ mwStatus = 0
  /\ mwError = ""
  /\ mwStage = "handled"
  /\ fsRows = [ns \in FsNamespaces |-> {}]
  /\ fsCache = <<>>
  /\ fsRedis = FALSE
  /\ fsLast = FsNoRequest
  /\ users = {}
  /\ tenants = {}
  /\ userTenants = {}
  /\ namespaces = <<>>
  /\ clock = 0
  /\ last = NoCall
  /\ prov = <<>>
  /\ cc = NoCalls
  /\ gs = NoSlug
  /\ jw = NoJwt
  /\ app = NoApp

SpecMw    == InitMw /\ [][NextMw]_vars
SpecFs    == InitFs /\ [][NextFs]_vars
SpecProv  == InitProv /\ [][NextProv]_vars
SpecOAuth == InitProv /\ [][NextOAuth]_vars
SpecLookup == InitProv /\ [][NextLookup]_vars
SpecConc == InitProv /\ [][NextConc]_vars

SpecJwt == InitProv /\ [][NextJwt]_vars

InitAuth ==
  /\ mwReq = IdleRequest
  /\ mwCtx = [tenantSchema |-> NotSet, tenantID |-> NotSet]
  /\ mwStatus = 0
  /\ mwError = ""
  /\ mwStage = "handled"
  /\ fsRows = [ns \in FsNamespaces |-> {}]
  /\ fsCache = <<>>
  /\ fsRedis = FALSE
  /\ fsLast = FsNoRequest
  /\ users \in AuthUserTables
  /\ tenants = {}
  /\ userTenants = {}
  /\ namespaces = <<>>
  /\ clock = 1
  /\ last = NoCall
  /\ prov = <<>>
  /\ cc = NoCalls
  /\ gs = NoSlug
  /\ jw = NoJwt
  /\ app = NoApp

SpecAuth == InitAuth /\ [][NextAuth]_vars

InitTenant ==
  /\ mwReq = IdleRequest
  /\ mwCtx = [tenantSchema |-> NotSet, tenantID |-> NotSet]
  /\ mwStatus = 0
  /\ mwError = ""
  /\ mwStage = "handled"
  /\ fsRows = [ns \in FsNamespaces |-> {}]
  /\ fsCache = <<>>
  /\ fsRedis = FALSE
  /\ fsLast = FsNoRequest
  /\ users = TenantUsers
  /\ tenants = {TenantRow(1, TenantAbc), TenantRow(2, TenantAbd)}
  /\ userTenants = TenantMemberships
  /\ namespaces = <<>>
  /\ clock = 0
  /\ last = NoCall
  /\ prov = <<>>
  /\ cc = NoCalls
  /\ gs = NoSlug
  /\ jw = NoJwt
  /\ app = NoApp

SpecTenant == InitTenant /\ [][NextTenant]_vars

SpecChat == InitProv /\ [][NextChat]_vars

SpecFsConc == InitFs /\ [][NextFsConc]_vars

SpecCredit == InitProv /\ [][NextCredit]_vars

SpecDomain == InitProv /\ [][NextDomain]_vars

InitSlug ==
  /\ mwReq = IdleRequest
  /\ mwCtx = [tenantSchema |-> NotSet, tenantID |-> NotSet]
  /\ mwStatus = 0
  /\ mwError = ""
  /\ mwStage = "handled"
  /\ fsRows = [ns \in FsNamespaces |-> {}]
  /\ fsCache = <<>>
  /\ fsRedis = FALSE
  /\ fsLast = FsNoRequest
  /\ users = {}
  /\ tenants \in SlugTenants
  /\ userTenants = {}
  /\ namespaces = <<>>
  /\ clock = 0
  /\ last = NoCall
  /\ prov = <<>>
  /\ cc = NoCalls
  /\ gs = NoSlug
  /\ jw = NoJwt
  /\ app = NoApp

\* The goroutine running generateTenantSchema keeps running.
SpecSlug == InitSlug /\ [][NextSlug]_vars /\ WF_vars(GenQuery)

-----------------------------------------------------------------------------
(* Properties *)

\* C1: on a non-exempt path, once the middleware has run, the tenant it
\* published under context key tenantID is the first non-empty value among
\* the X-Tenant-ID header, the tenant query parameter and the token's
\* tenantSchema claim, in this order: the header when the header is set, the
\* query parameter when only query parameter and claim are set, the claim when
\* only the claim is set; and it publishes whenever that value is a valid id.
C1_ResolutionPrecedence ==
  (mwStage # "received" /\ ~IsSkipPath(mwReq.path)) =>
    LET header == mwReq.header
        query  == mwReq.query
        claim  == mwCtx.tenantSchema.val
        first  == IF header # EmptyStr THEN header
                  ELSE IF query # EmptyStr THEN query
                  ELSE claim
    IN  /\ mwCtx.tenantID.set => mwCtx.tenantID.val = first
        /\ (first # EmptyStr /\ validateTenantID(first)) => mwCtx.tenantID.set
        /\ (header # EmptyStr /\ mwCtx.tenantID.set) => mwCtx.tenantID.val = header
        /\ (header = EmptyStr /\ query # EmptyStr /\ mwCtx.tenantID.set)
             => mwCtx.tenantID.val = query
        /\ (header = EmptyStr /\ query = EmptyStr /\ mwCtx.tenantID.set)
             => mwCtx.tenantID.val = claim

\* C1 witness: header, query parameter and claim carry three different valid
\* ids on a non-exempt path and the handler has run with the header's value.
C1_Witness ==
  /\ mwStage = "handled"
  /\ ~IsSkipPath(mwReq.path)
  /\ mwReq.header = TenantAbc
  /\ mwReq.query = TenantAbd
  /\ mwCtx.tenantSchema.val = TenantXyz
  /\ mwCtx.tenantID = CtxVal(TenantAbc)

\* The tenant identifiers among the inputs that validateTenantID accepts.
ValidTenantInputs == {t \in FsTenantInputs \cup TenantInputs : validateTenantID(t)}

\* C2: filesystem entries are isolated across tenants.  A GetEntry that
\* answers 200 for tenant beta and a key returns data that beta itself stored
\* under that key, never another tenant's, whether it is served from the
\* tenant-scoped table or from the Redis cache; otherwise it answers
\* not-found.  Every row lies in the namespace of the tenant that wrote it,
\* every cached entry lies under the cache key of its owner, and the cache
\* keys fs:<tenant>:<key> of two different valid tenant ids never coincide.
C2_CrossTenantIsolation ==
  /\ (fsLast.op = "get" /\ fsLast.status = 200) =>
       (fsLast.body.owner = fsLast.tenant /\ fsLast.body.key = fsLast.key)
  /\ (fsLast.op = "get" /\ fsLast.tenant # EmptyStr) => fsLast.status \in {200, 404}
  /\ \A ns \in DOMAIN fsRows : \A r \in fsRows[ns] :
       r.tenant_schema = ns /\ r.data.owner = ns
  /\ \A t1 \in ValidTenantInputs, t2 \in ValidTenantInputs :
       \A k1 \in FsKeyInputs, k2 \in FsKeyInputs :
         t1 # t2 => cacheKey(t1, k1) # cacheKey(t2, k2)
  /\ \A t \in ValidTenantInputs, k \in FsKeyInputs :
       cacheKey(t, k) \in DOMAIN fsCache =>
         (fsCache[cacheKey(t, k)].owner = t /\ fsCache[cacheKey(t, k)].key = k)

\* C2 witness: tenant abc has stored key /k, in its table and in the cache,
\* and a GetEntry of tenant abd for /k has answered not-found.
C2_Witness ==
  /\ fsLast = [op |-> "get", tenant |-> TenantAbd, key |-> KeyK,
               status |-> 404, body |-> FsNoBody]
  /\ FsFind(fsRows, TenantAbc, KeyK) # {}
  /\ cacheKey(TenantAbc, KeyK) \in DOMAIN fsCache
  /\ fsCache[cacheKey(TenantAbc, KeyK)].owner = TenantAbc

\* C3: when CreateTenantSchema fails inside CreateUserWithTenant, the call
\* returns an error and afterwards no user row has the email of that attempt
\* and no tenant row has its schema.
C3_MigrationFailureRollsBack ==
  (last.op = "create" /\ last.fault = "migrate" /\ last.err # "user"
     /\ ~last.tenantExists /\ last.err # "tenant") =>
    /\ last.err = "migrate"
    /\ \A u \in users : u.email # last.email
    /\ TenantBySchema(tenants, last.tenantSchema) = {}

\* C3 witness: a migration failed for a new email and a new tenant while
\* another user was already provisioned.
C3_Witness ==
  /\ last.op = "create"
  /\ last.err = "migrate"
  /\ users # {}
  /\ tenants # {}

\* C4 as the specification states it: a failed CreateUserWithTenant leaves
\* nothing of the attempt behind: no user row, no tenant row, no membership
\* row and no newly created physical namespace.
C4_NothingPersistsOnFailure ==
  [][(last'.op = "create" /\ clock' = clock + 1 /\ last'.err # "") =>
       /\ users' = users
       /\ tenants' = tenants
       /\ userTenants' = userTenants
       /\ namespaces' = namespaces]_vars

\* C5: every tenant row of the catalog has a physical namespace whose
\* migration succeeded.
C5_TenantRowHasMigratedNamespace ==
  \A t \in tenants :
    /\ t.schema_name \in DOMAIN namespaces
    /\ namespaces[t.schema_name] = "migrated"

\* C5 witness: two tenants are provisioned and the last call failed in the
\* migration of a third.
C5_Witness ==
  /\ Cardinality(tenants) >= 2
  /\ last.op = "create"
  /\ last.err = "migrate"

\* The memberships of one user.
MembershipsOf(userID) == {ut \in userTenants : ut.user_id = userID}

\* C6: of the memberships of one tenant schema the first created is admin and
\* every later one is member; and a user provisioned from an email with local
\* part "owner", with no explicit tenant and no tenant "owner" in the catalog,
\* is linked to schema "owner" as admin with primary = true.
C6_FirstAdminThenMember ==
  /\ \A ut \in userTenants :
       ut.role = IF \A o \in userTenants :
                       o.tenant_schema = ut.tenant_schema => o.id >= ut.id
                  THEN "admin" ELSE "member"
  /\ \A u \in users :
       (/\ u.id \in DOMAIN prov
        /\ prov[u.id].auto
        /\ ~prov[u.id].collided
        /\ SplitFirst(u.email, "@") = SchemaOwner) =>
         /\ Cardinality(MembershipsOf(u.id)) = 1
         /\ \A ut \in MembershipsOf(u.id) :
              /\ ut.tenant_schema = SchemaOwner
              /\ ut.role = "admin"
              /\ ut.primary_tenant

\* C6 witness: owner@acme.test was provisioned with no explicit tenant and
\* is admin of "owner", and a later user of that schema is member.
C6_Witness ==
  /\ \E u \in users, ut \in userTenants :
       /\ u.email = EmailOwnerA
       /\ prov[u.id].auto
       /\ ut.user_id = u.id
       /\ ut.tenant_schema = SchemaOwner
       /\ ut.role = "admin"
       /\ ut.primary_tenant
  /\ \E ut \in userTenants : ut.tenant_schema = SchemaOwner /\ ut.role = "member"

\* The users provisioned with no explicit tenant whose derived slug was the
\* schema of a tenant that already existed.
CollidedUsers == {u \in users : u.id \in DOMAIN prov /\ prov[u.id].auto /\ prov[u.id].collided}

C8_JoinExistingTenant ==
  [][(/\ last'.op = "create"
      /\ clock' = clock + 1
      /\ last'.explicit # EmptyStr
      /\ TenantBySchema(tenants, last'.explicit) # {}) =>
       /\ (last'.fault = "none" /\ \A u \in users : u.email # last'.email)
            => last'.err = ""
       /\ last'.err = "" =>
            /\ tenants' = tenants
            /\ namespaces' = namespaces
            /\ users \subseteq users'
            /\ userTenants \subseteq userTenants'
            /\ Cardinality(users' \ users) = 1
            /\ Cardinality(userTenants' \ userTenants) = 1
            /\ \A u \in users' \ users : u.email = last'.email
            /\ \A ut \in userTenants' \ userTenants :
                 /\ \E u \in users' \ users : ut.user_id = u.id
                 /\ ut.tenant_schema = last'.explicit
                 /\ ut.primary_tenant
                 /\ ut.role = IF \E o \in userTenants :
                                     o.tenant_schema = last'.explicit
                              THEN "member" ELSE "admin"]_vars

\* C8 witness: a user has joined the existing tenant "owner" through an
\* explicit TenantSchema and is member.
C8_Witness ==
  /\ last.op = "create"
  /\ last.explicit = SchemaOwner
  /\ last.tenantExists
  /\ last.err = ""
  /\ last.role = "member"
  /\ \E ut \in userTenants :
       ut.user_id = last.userID /\ ut.tenant_schema = SchemaOwner /\ ut.primary_tenant

\* C9 as the specification states it: every user row is linked by a
\* membership to a tenant whose namespace has been migrated.
C9_EveryUserHasMigratedTenant ==
  \A u \in users :
    \E ut \in MembershipsOf(u.id) :
      /\ ut.tenant_schema \in DOMAIN namespaces
      /\ namespaces[ut.tenant_schema] = "migrated"

\* C10: when a user with email E exists with no external id for provider P
\* and no user has external id X for P, FindOrCreateUserWithOAuth with email E
\* and id X succeeds (unless one of its queries or its update fails), returns
\* that user, creates no user, tenant or membership row, leaves exactly one
\* row with email E, and that row has P's id set to X and last_login_at
\* updated; every other row is as before.
C10_OAuthLinksExistingUser ==
  [][(/\ last'.op = "oauth"
      /\ clock' = clock + 1
      /\ \E u \in users : u.email = last'.email
                          /\ u[ProviderColumn(last'.provider)] = NilID
      /\ \A v \in users : v[ProviderColumn(last'.provider)] # last'.oauthID
      /\ last'.fault \notin {"idquery", "emailquery", "linkupdate"}) =>
       /\ last'.err = ""
       /\ last'.path = "byemail"
       /\ tenants' = tenants
       /\ userTenants' = userTenants
       /\ namespaces' = namespaces
       /\ Cardinality(users') = Cardinality(users)
       /\ Cardinality({u \in users' : u.email = last'.email}) = 1
       /\ \E u \in users :
            /\ u.email = last'.email
            /\ last'.userID = u.id
            /\ users' = (users \ {u}) \cup
                 {[u EXCEPT ![ProviderColumn(last'.provider)] = last'.oauthID,
                            !.last_login_at = clock']}]_vars

\* C10 witness: an OAuth login has linked the provider's id to a user found
\* by email, whose row now carries the id and the time of this login.
C10_Witness ==
  /\ last.op = "oauth"
  /\ last.path = "byemail"
  /\ last.err = ""
  /\ \E u \in users :
       /\ u.id = last.userID
       /\ u.email = last.email
       /\ u[ProviderColumn(last.provider)] = last.oauthID
       /\ u.last_login_at = last.at
       /\ last.at > 0

\* C11: FindOrCreateUserWithOAuth looks a user up by the provider's external
\* id, then by email, and provisions (a new user, tenant, membership or
\* namespace) only when neither lookup matches.  When the external id matches
\* user A the call returns A, changes nothing but A's last_login_at, and
\* leaves every other user row as it was, whoever owns the reported email.
C11_LookupOrder ==
  [][(last'.op = "oauth" /\ clock' = clock + 1) =>
       LET byID    == {u \in users : u[ProviderColumn(last'.provider)] = last'.oauthID}
           byEmail == {u \in users : u.email = last'.email}
       IN  /\ (byID # {} /\ last'.fault # "idquery") =>
                /\ last'.err = ""
                /\ last'.path = "byid"
                /\ tenants' = tenants
                /\ userTenants' = userTenants
                /\ namespaces' = namespaces
                /\ \E a \in byID :
                     /\ last'.userID = a.id
                     /\ \/ users' = users
                        \/ users' = (users \ {a}) \cup {[a EXCEPT !.last_login_at = clock']}
           /\ last'.path = "byemail" => (byID = {} /\ byEmail # {})
           /\ last'.path = "created" => (byID = {} /\ byEmail = {})
           /\ (\/ Cardinality(users') # Cardinality(users)
               \/ tenants' # tenants
               \/ userTenants' # userTenants
               \/ namespaces' # namespaces) =>
                (byID = {} /\ byEmail = {} /\ last'.path = "created")
           /\ (byID = {} /\ byEmail = {} /\ last'.fault = "none") =>
                last'.path = "created"]_vars

\* C11 witness: a login whose external id belongs to user A and whose email
\* belongs to another user B has returned A, with A's last_login_at set to
\* the time of the login and B's row without the external id.
C11_Witness ==
  /\ last.op = "oauth"
  /\ last.path = "byid"
  /\ \E a \in users, b \in users :
       /\ a.id = last.userID
       /\ a[ProviderColumn(last.provider)] = last.oauthID
       /\ a.last_login_at = last.at
       /\ b.id # a.id
       /\ b.email = last.email
       /\ b[ProviderColumn(last.provider)] = NilID

\* A finished call answered with success: 201 from Register, a nil error
\* from CreateUserWithTenant.
Succeeded(p) == cc[p].pc = "done" /\ cc[p].status \in {200, 201}

Failed(p) == cc[p].pc = "done" /\ cc[p].status \in {409, 500}

\* C12: when two calls that sign up the same email (Register or
\* CreateUserWithTenant, in any interleaving of their statements) are the
\* only calls made and both have finished, exactly one of them succeeded and
\* the other failed; and no interleaving ever leaves two committed user rows
\* with one email.
C12_SameEmailOneWins ==
  /\ \A u \in users : \A v \in users : u.email = v.email => u = v
  /\ (clock = 2 /\ cc[1].pc = "done" /\ cc[2].pc = "done" /\ cc[1].email = cc[2].email)
       => /\ \E p \in Procs : Succeeded(p) /\ \A q \in Procs \ {p} : Failed(q)
          /\ Cardinality({u \in users : u.email = cc[1].email}) = 1

\* Both registrations passed the existence query before either inserted; the
\* second insert hit the unique index.
C12_Witness ==
  /\ clock = 2
  /\ cc[1].kind = "register" /\ cc[2].kind = "register"
  /\ cc[1].email = cc[2].email
  /\ \E p \in Procs : Succeeded(p) /\ \A q \in Procs \ {p} : Failed(q) /\ cc[q].status = 500
  /\ Cardinality({u \in users : u.email = cc[1].email}) = 1

\* C13: when two CreateUserWithTenant calls for different emails with the
\* same derived slug (no explicit schema) are the only calls made and both
\* have finished, both succeeded, and the two users are members either of
\* the same tenant or of the base slug's tenant and a numeric-suffixed one.
C13_SameSlugSignupsConverge ==
  (/\ clock = 2
   /\ \A p \in Procs : cc[p].kind = "create" /\ cc[p].pc = "done" /\ cc[p].explicit = EmptyStr
   /\ cc[1].email # cc[2].email
   /\ BaseSchema(cc[1].email) = BaseSchema(cc[2].email))
  => /\ \A p \in Procs : Succeeded(p)
     /\ \A p \in Procs :
          \E ut \in userTenants :
            /\ ut.user_id = cc[p].st.user.id
            /\ ut.tenant_schema \in {BaseSchema(cc[p].email),
                                     SuffixedSchema(BaseSchema(cc[p].email), 1)}

C15_SlugLoopTerminates == (gs.pc = "loop") ~> (gs.pc = "returned")

\* C16: for every non-empty identifier the middleware has resolved on a
\* non-exempt path, validateTenantID accepted it (the request went on with
\* the identifier published) if and only if it has 3 to 63 characters, all
\* in [A-Za-z0-9_]; every other identifier was answered 400 with
\* ErrInvalidTenantID; and no database call was made by then.
C16_ValidateTenantIDRule ==
  LET r == ResolveTenantID(mwReq, mwCtx)
      inRule == /\ Len(r) >= 3 /\ Len(r) <= 63
                /\ \A i \in 1..Len(r) : r[i] \in LowerSet \cup UpperSet \cup DigitSet \cup {"_"}
  IN  (mwStage # "received" /\ ~IsSkipPath(mwReq.path) /\ r # EmptyStr)
        => /\ inRule <=> (mwStage \in {"next", "handled"} /\ mwCtx.tenantID = CtxVal(r))
           /\ ~inRule <=> (mwStage = "aborted" /\ mwStatus = 400 /\ mwError = ErrInvalidTenantID)
           /\ fsLast = FsNoRequest /\ last = NoCall /\ fsCache = <<>>

\* An identifier of allowed length with a character outside the set was
\* rejected.
C16_Witness ==
  /\ mwStage = "aborted" /\ mwError = ErrInvalidTenantID
  /\ mwReq.path = PathFs /\ mwReq.header = TenantBad
  /\ Len(TenantBad) >= 3 /\ Len(TenantBad) <= 63

C18_NoSourceIsTenantRequired ==
  (/\ mwStage # "received" /\ ~IsSkipPath(mwReq.path)
   /\ mwReq.header = EmptyStr /\ mwReq.query = EmptyStr
   /\ mwCtx.tenantSchema \in {NotSet, CtxVal(EmptyStr)})
    => /\ mwStage = "aborted" /\ mwStatus = 400 /\ mwError = "tenant ID is required"
       /\ mwCtx.tenantID = NotSet

C18_Witness ==
  /\ mwStage = "aborted" /\ mwStatus = 400 /\ mwError = "tenant ID is required"
  /\ mwReq = [path |-> PathFs, header |-> EmptyStr, query |-> EmptyStr]
  /\ mwCtx.tenantSchema = CtxVal(EmptyStr)
  /\ mwCtx.tenantID = NotSet

\* C19: a request to /api/v1/account with no Authorization header is
\* answered 401 "missing authorization header"; a 401 for any other header
\* (malformed scheme, invalid or expired token) carries a different error;
\* and after every 401 neither TenantFromHeaderMiddleware nor the handler
\* has run and the context holds no claims, userId, email, tenantSchema or
\* tenantID.
C19_MissingTokenIsDistinct401 ==
  LET l == jw.last IN
  /\ (l.header = EmptyStr /\ l # NoAuthRequest)
       => l.status = 401 /\ l.error = "missing authorization header"
  /\ (l.header # EmptyStr /\ ~l.tenantMw)
       => /\ l.status = 401
          /\ l.error \in {"invalid authorization header format", ErrInvalidToken,
                          ErrExpiredToken}
          /\ l.error # "missing authorization header"
  /\ l.status = 401 <=> (l # NoAuthRequest /\ ~l.tenantMw)
  /\ l.status = 401 => ~l.tenantMw /\ ~l.handler /\ l.ctx = NoAuthCtx

\* A request without the header while a valid token exists.
C19_Witness ==
  /\ jw.last.header = EmptyStr /\ jw.last.status = 401
  /\ jw.last.error = "missing authorization header"
  /\ Len(jw.issued) = 1 /\ jw.last.at >= jw.issued[1].at
  /\ jw.last.ctx = NoAuthCtx /\ ~jw.last.handler

\* C20, as the code has it: a correctly signed token issued at time t with
\* window w validates at every time from t up to, not including, t + w
\* truncated to the whole second, and gives ErrExpiredToken at every time
\* from then on; a token signed with another key, a string that is not a
\* token and an empty token give ErrInvalidToken.
C20_TokenLifecycle ==
  LET l == jw.last IN
  /\ \A i \in 1..Len(jw.issued) :
       LET tok   == jw.issued[i]
           sum   == tok.at + Expiry
           expAt == sum - (sum % TimePrecision)
       IN  /\ l.header = Bearer \o <<" ">> \o TokenString(i)
                => IF l.at < expAt
                   THEN l.status # 401 /\ l.ctx.claims = CtxVal(DecodeClaims(tok.payload))
                   ELSE l.status = 401 /\ l.error = ErrExpiredToken
           /\ l.header = Bearer \o <<" ">> \o ForgedString(i)
                => l.status = 401 /\ l.error = ErrInvalidToken
  /\ l.header \in {Bearer \o <<" ">> \o NotAToken, Bearer \o <<" ">>}
       => l.status = 401 /\ l.error = ErrInvalidToken

\* A token issued in the middle of a second is answered ErrExpiredToken half
\* a second before its window has elapsed.
C20_Witness ==
  /\ Len(jw.issued) = 1
  /\ jw.issued[1].at % TimePrecision = 1
  /\ jw.last.header = Bearer \o <<" ">> \o TokenString(1)
  /\ jw.last.at = jw.issued[1].at + Expiry - 1
  /\ jw.last.status = 401 /\ jw.last.error = ErrExpiredToken

\* C20 as stated: the token validates at every time in [t, t + w) and gives
\* ErrExpiredToken at every later time.
C20_ValidForWholeWindow ==
  \A i \in 1..Len(jw.issued) :
    jw.last.header = Bearer \o <<" ">> \o TokenString(i)
      => IF jw.last.at < jw.issued[i].at + Expiry
         THEN jw.last.status # 401
         ELSE jw.last.status = 401 /\ jw.last.error = ErrExpiredToken

\* C21: a token presented at the time it was issued validates, and the
\* claims ValidateToken returns carry the UserID, Email and TenantSchema
\* given to GenerateToken (the empty tenantSchema included) and the
\* manager's issuer.
C21_TokenRoundTrip ==
  \A i \in 1..Len(jw.issued) :
    (jw.last.header = Bearer \o <<" ">> \o TokenString(i) /\ jw.last.at = jw.issued[i].at)
      => /\ jw.last.status # 401
         /\ jw.last.ctx.claims.set
         /\ jw.last.ctx.claims.val.userId = jw.issued[i].for.userID
         /\ jw.last.ctx.claims.val.email = jw.issued[i].for.email
         /\ jw.last.ctx.claims.val.tenantSchema = jw.issued[i].for.tenantSchema
         /\ jw.last.ctx.claims.val.iss = JwtIssuer
         /\ jw.last.ctx.userId = CtxVal(jw.issued[i].for.userID)
         /\ jw.last.ctx.email = CtxVal(jw.issued[i].for.email)
         /\ jw.last.ctx.tenantSchema = CtxVal(jw.issued[i].for.tenantSchema)

\* A token without tenantSchema, issued in the middle of a second and
\* presented at once.
C21_Witness ==
  /\ Len(jw.issued) = 1
  /\ jw.issued[1].for.tenantSchema = EmptyStr
  /\ "tenantSchema" \notin DOMAIN jw.issued[1].payload
  /\ jw.issued[1].at % TimePrecision = 1
  /\ jw.last.header = Bearer \o <<" ">> \o TokenString(1)
  /\ jw.last.at = jw.issued[1].at
  /\ jw.last.ctx.claims.set /\ jw.last.ctx.claims.val.tenantSchema = EmptyStr

C23_LoginDoesNotEnumerate ==
  [][(/\ last'.op = "login"
      /\ cc' = cc /\ app' = app /\ clock' = clock
      /\ \A u \in users : u.email = last'.email
                            => u.password_hash # BcryptOf(last'.password))
       => (last'.status = 401 /\ last'.err = "invalid credentials")]_vars

\* C24: a reset token is single-use: two confirmations that presented the
\* same token never both succeed, also when they run concurrently.
C24_TokenSingleUse ==
  \A p, q \in Procs :
    (/\ p # q
     /\ cc[p].kind = "confirm" /\ cc[p].pc = "done" /\ cc[p].status = 200
     /\ cc[q].kind = "confirm" /\ cc[q].pc = "done" /\ cc[q].status = 200)
      => cc[p].st.token # cc[q].st.token


\* C25: whenever a tenant-scoped handler runs for an authenticated user, the
\* tenant ID in the request context names a tenant that user is a member of.
C25_HandlerTenantIsMembership ==
  app.req.handler =>
    \E ut \in userTenants : /\ ut.user_id = app.req.ctx.userId.val
                            /\ ut.tenant_schema = app.req.ctx.tenantID.val


\* C26: under every interleaving of provisioning calls on one tenant schema,
\* the schema's memberships hold exactly one admin, the first one created,
\* and two calls in flight never both hold the role admin for one schema.
C26_OneAdminUnderConcurrency ==
  /\ \A ut \in userTenants :
       LET ms == {o \in userTenants : o.tenant_schema = ut.tenant_schema} IN
         /\ Cardinality({o \in ms : o.role = "admin"}) = 1
         /\ ut.role = "admin" <=> \A o \in ms : o.id >= ut.id
  /\ \A p, q \in Procs :
       (/\ p # q
        /\ cc[p].kind = "create" /\ cc[q].kind = "create"
        /\ cc[p].pc \in {"link", "commit"} /\ cc[q].pc \in {"link", "commit"}
        /\ cc[p].st.role = "admin" /\ cc[q].st.role = "admin")
         => cc[p].st.tenantSchema # cc[q].st.tenantSchema

\* C26 witness: two provisioning calls on the same schema have both
\* committed; the schema has two memberships, one admin and one member.
C26_Witness ==
  /\ \A p \in Procs : cc[p].kind = "create" /\ Succeeded(p)
  /\ cc[1].st.tenantSchema = cc[2].st.tenantSchema
  /\ Cardinality({ut \in userTenants : ut.tenant_schema = cc[1].st.tenantSchema}) = 2
  /\ Cardinality({ut \in userTenants : ut.tenant_schema = cc[1].st.tenantSchema
                                        /\ ut.role = "admin"}) = 1


\* C27: a chat that GetChat returns, CreateChatStream appends to, or
\* DeleteChat removes was created by a request of the caller's own tenant.
C27_ChatsAreTenantScoped ==
  app.chat.by # EmptyStr => app.chat.by = app.chat.tenant


\* C28: with no filesystem request in flight, a value cached for tenant abc
\* and key /k is the data of the database's current row for that key (so
\* every later GetEntry returns what the last completed write left).
C28_CacheCoherent ==
  (\A p \in Procs : FsIdle(p)) =>
    (FsConcKey \in DOMAIN fsCache =>
       \E r \in FsFind(fsRows, TenantAbc, KeyK) : r.data = fsCache[FsConcKey])


\* C29: balances are never negative, and with no credit request in flight
\* each balance equals the amounts added minus the amounts used by the
\* requests that succeeded (the account starts at zero): no update is lost.
C29_CreditsAddUp ==
  /\ \A a \in app.accounts : a.basic >= 0 /\ a.premium >= 0
  /\ (\A p \in Procs : cc[p].pc \in {"idle", "done"}) =>
       \A type \in CreditTypes :
         Balance(FirstAccount(app.accounts), type) = app.ledger[type]


\* C30: right after a SetPrimaryDomain(d) that answered 200, d is the
\* tenant's one and only domain with primary = true.
C30_PrimaryIsTheDomainSet ==
  (app.domain.op = "primary" /\ app.domain.status = 200) =>
    /\ \E r \in LiveDomains(app.domains) : r.domain = app.domain.domain /\ r.primary
    /\ \A r \in LiveDomains(app.domains) : r.primary => r.domain = app.domain.domain

====
